---- MODULE Spec2Model ----
(***************************************************************************)
(* A state-machine model of the WebAssembly runtime: the instance built    *)
(* by Instance::new, the interpreter of exec/instance.rs, the linear       *)
(* memory of exec/memory/mod.rs, the host function of exec/wasi.rs, the    *)
(* operand stack of exec/operand_stack.rs with the conversions of          *)
(* exec/types/value.rs, and the decoder of parse/parser.rs.                *)
(*                                                                         *)
(* Integers are fixed-width two's complement.  The model keeps the shape   *)
(* of the arithmetic (i32 values, their `as u32` and `as usize` casts, the *)
(* wrap or panic on usize overflow) and scales the widths down: an i32 has *)
(* I32_BITS bits and a usize USIZE_BITS bits, USIZE_BITS > I32_BITS as on  *)
(* a 64-bit target.  Memory is a byte vector; it is stored as its length   *)
(* and the map of its non-zero bytes.                                      *)
(***************************************************************************)
EXTENDS Integers, Sequences, FiniteSets, TLC

VARIABLES
    module,           \* the parsed Module handed to Instance::new
    overflow_checks,  \* build profile: TRUE = overflow checks on (debug), FALSE = wrapping (release)
    functions,        \* Instance.functions
    memory,           \* Instance.memory / the Memory object
    operand_stack,    \* Instance.operand_stack
    call_stack,       \* Instance.call_stack
    frames,           \* active Rust calls of exec_function / execute_instructions
    status,           \* where control is: "bytes", "parse_error", "parsed", "idle", "running",
                      \* "ok", "trapped", "aborted"
    error,            \* the ExecutionError of the last start(), if it returned Err
    stdout,           \* bytes the process has written to standard output
    starts,           \* number of start() calls made so far
    bytecode,         \* the bytes handed to Parser::parse_module
    call              \* the last call across an interface, its arguments and its result

vars == <<module, overflow_checks, functions, memory, operand_stack, call_stack,
          frames, status, error, stdout, starts, bytecode, call>>

---------------------------------------------------------------------------
(* Bounds of the model *)

I32_BITS == 16

USIZE_BITS == 24

MaxStarts == 2

MaxGrowPages == 3

MaxStackLen == 2

MaxParses == 2

MaxTypes == 2

MaxCodes == 2

(* Program constant *)
MEMORY_PAGE_SIZE == 4096

---------------------------------------------------------------------------
(* Fixed-width integers *)

RECURSIVE Pow2(_)
Pow2(n) == IF n = 0 THEN 1 ELSE 2 * Pow2(n - 1)

I32_MIN == -Pow2(I32_BITS - 1)

I32_MAX == Pow2(I32_BITS - 1) - 1

USIZE_MOD == Pow2(USIZE_BITS)

\* `x as u32` for an i32 x: the same bits read as unsigned.
AsU32(x) == x % Pow2(I32_BITS)

\* `x as i32` for a u32 x: the same bits read as signed.
AsI32(x) == IF x % Pow2(I32_BITS) > I32_MAX
            THEN (x % Pow2(I32_BITS)) - Pow2(I32_BITS)
            ELSE x % Pow2(I32_BITS)

\* `x as usize` for an i32 x: sign-extended to the pointer width.
AsUsize(x) == x % USIZE_MOD

\* to_be_bytes: the highest byte first
ToLeBytes_HighestFirst(x) == [k \in 1..4 |-> (x \div Pow2(8 * (4 - k))) % 256]

\* i32::to_le_bytes: the four bytes of the two's complement value, lowest first.
ToLeBytes(x) == [k \in 1..4 |-> (x \div Pow2(8 * (k - 1))) % 256]

\* u32::from_le_bytes
FromLeBytes(b) == b[1] + 256 * b[2] + 65536 * b[3] + 16777216 * b[4]

\* Integer division truncating toward zero, as Rust's `/` on signed integers.
TruncDiv(a, b) ==
    IF (a >= 0) = (b >= 0)
    THEN (IF a >= 0 THEN a ELSE -a) \div (IF b >= 0 THEN b ELSE -b)
    ELSE -((IF a >= 0 THEN a ELSE -a) \div (IF b >= 0 THEN b ELSE -b))

\* Remainder with the sign of the dividend, as Rust's `%` on signed integers.
TruncRem(a, b) == a - b * TruncDiv(a, b)

---------------------------------------------------------------------------
(* Values, results and errors *)

I32(v) == [tag |-> "I32", val |-> v]

Ok(v) == [ok |-> TRUE, val |-> v]

Err(e) == [ok |-> FALSE, err |-> e]

NoError == [kind |-> "None"]

ErrNoMemory == [kind |-> "NoMemory"]

ErrInvalidMemoryArea(start, end, size) ==
    [kind |-> "InvalidMemoryArea", addr |-> <<start, end>>, size |-> size]

ErrFunctionIndexOutOfBounds(index, len) ==
    [kind |-> "FunctionIndexOutOfBounds", index |-> index, len |-> len]

ErrPopOnEmptyOperandStack == [kind |-> "PopOnEmptyOperandStack"]

ErrStackTypeError(expected, got) ==
    [kind |-> "StackTypeError", expected |-> expected, got |-> got]

ErrTrap(msg) == [kind |-> "Trap", msg |-> msg]

\* The variants of exec::Error an execution can return.
ErrorKinds == {"NoMemory", "InvalidMemoryArea", "FunctionIndexOutOfBounds",
               "PopOnEmptyOperandStack", "StackTypeError", "Trap", "IoError"}

\* impl TryFrom<Value> for i32
TryFromI32(value) ==
    IF value.tag = "I32" THEN Ok(value.val)
    ELSE Err(ErrStackTypeError("i32", value))

\* A conversion to u32 that rejects the I32 cells with the sign bit set
TryFromU32_SignChecked(value) ==
    IF value.tag = "I32" /\ value.val >= 0 THEN Ok(value.val)
    ELSE Err(ErrStackTypeError("i32(u32)", value))

\* impl TryFrom<Value> for u32
TryFromU32(value) ==
    IF value.tag = "I32" THEN Ok(AsU32(value.val))
    ELSE Err(ErrStackTypeError("i32(u32)", value))

---------------------------------------------------------------------------
(* Memory: Vec<u8> as its length and its non-zero bytes *)

EmptyData == [len |-> 0, nz |-> [a \in {} |-> 0]]

ByteAt(data, a) == IF a \in DOMAIN data.nz THEN data.nz[a] ELSE 0

\* data[start..start+Len(bytes)].copy_from_slice(bytes), the range being in bounds
CopyFromSlice(data, start, bytes) ==
    LET written == {start + k - 1 : k \in 1..Len(bytes)}
        at(a) == IF a \in written THEN bytes[a - start + 1] ELSE ByteAt(data, a)
        dom == {a \in (DOMAIN data.nz) \cup written : at(a) # 0}
    IN  [len |-> data.len, nz |-> [a \in dom |-> at(a)]]

\* Vec::resize(new_len, 0): truncates or extends with zeros
Resize(data, new_len) ==
    [len |-> new_len,
     nz |-> [a \in {x \in DOMAIN data.nz : x < new_len} |-> data.nz[a]]]

\* data[start..end] of a slice: in bounds iff start <= end <= len
RangeInBounds(data, start, end) == start <= end /\ end <= data.len

ReadBytes(data, start, n) == [k \in 1..n |-> ByteAt(data, start + k - 1)]

\* Option<Memory> / Option<MemoryBlueprint>: None, or a record with some = TRUE
None == [some |-> FALSE]

---------------------------------------------------------------------------
(* Memory::grow and impl From<MemoryBlueprint> for Memory.  A failed       *)
(* assert! or an out-of-range slice index panics: [panic |-> TRUE].        *)

Panic == [panic |-> TRUE]

NoPanic(m) == [panic |-> FALSE, mem |-> m]

\* Memory::page_size
PageSize(mem) == mem.data.len \div MEMORY_PAGE_SIZE

\* Memory::grow without the assert on page_limit.end
Grow_NoUpperLimit(mem, new_page_size) ==
    IF ~(new_page_size >= mem.page_limit.start) THEN Panic
    ELSE NoPanic([mem EXCEPT !.data = Resize(@, MEMORY_PAGE_SIZE * new_page_size)])

\* Memory::grow(new_page_size)
Grow(mem, new_page_size) ==
    IF ~(new_page_size >= mem.page_limit.start) THEN Panic   \* "Memory grow too small"
    ELSE IF ~(new_page_size <= mem.page_limit.end) THEN Panic \* "Memory grow too large"
    ELSE NoPanic([mem EXCEPT !.data = Resize(@, MEMORY_PAGE_SIZE * new_page_size)])

\* The loop of Memory::from over blueprint.init
RECURSIVE CopyInit(_, _)
CopyInit(mem, init) ==
    IF init = <<>> THEN NoPanic(mem)
    ELSE LET init_segment == Head(init)
             start == init_segment.addr
             end == init_segment.addr + Len(init_segment.data)
         IN  IF ~RangeInBounds(mem.data, start, end) THEN Panic
             ELSE CopyInit([mem EXCEPT !.data = CopyFromSlice(@, start, init_segment.data)],
                           Tail(init))

\* impl From<MemoryBlueprint> for Memory
MemoryFrom(blueprint) ==
    LET fresh == [some |-> TRUE, data |-> EmptyData, page_limit |-> blueprint.page_limit]
        grown == Grow(fresh, blueprint.page_limit.start)
    IN  IF grown.panic THEN Panic ELSE CopyInit(grown.mem, blueprint.init)

\* impl MemObject for u32: write_to_mem, through Memory::write
MemWriteU32(mem, value, addr) ==
    IF ~RangeInBounds(mem.data, addr, addr + 4) THEN Panic
    ELSE NoPanic([mem EXCEPT !.data = CopyFromSlice(@, addr, ToLeBytes(value))])

\* impl MemObject for u32: read_from_mem, through Memory::read
MemReadU32(mem, addr) == FromLeBytes(ReadBytes(mem.data, addr, 4))

---------------------------------------------------------------------------
(* Operand stack: Vec<Value>, the top is the last element *)

Outcome(kind, stack, mem, err) ==
    [kind |-> kind, operand_stack |-> stack, memory |-> mem, err |-> err]

Done(stack, mem) == Outcome("ok", stack, mem, NoError)

Trapped(stack, mem, err) == Outcome("err", stack, mem, err)

Panicked(stack, mem) == Outcome("panic", stack, mem, NoError)

Push(stack, value) == Append(stack, value)

\* InstanceRef::op_stack_pop: the popped value and the shorter stack, or the error
OpStackPop(stack) ==
    IF stack = <<>>
    THEN [ok |-> FALSE, err |-> ErrPopOnEmptyOperandStack, stack |-> stack]
    ELSE [ok |-> TRUE, val |-> stack[Len(stack)], stack |-> SubSeq(stack, 1, Len(stack) - 1)]

\* i32::try_from(self.op_stack_pop()?)?
PopI32(stack) ==
    LET popped == OpStackPop(stack)
    IN  IF ~popped.ok THEN popped
        ELSE LET conv == TryFromI32(popped.val)
             IN  IF conv.ok THEN [ok |-> TRUE, val |-> conv.val, stack |-> popped.stack]
                 ELSE [ok |-> FALSE, err |-> conv.err, stack |-> popped.stack]

\* u32::try_from(self.op_stack_pop()?)?
PopU32(stack) ==
    LET popped == OpStackPop(stack)
    IN  IF ~popped.ok THEN popped
        ELSE LET conv == TryFromU32(popped.val)
             IN  IF conv.ok THEN [ok |-> TRUE, val |-> conv.val, stack |-> popped.stack]
                 ELSE [ok |-> FALSE, err |-> conv.err, stack |-> popped.stack]

---------------------------------------------------------------------------
(* The arms of execute_instructions that touch only operand stack and memory *)

\* Instruction::I32Store(mem_arg)
I32StoreArm(mem_arg, stack, mem, checks) ==
    LET p1 == PopI32(stack)
    IN  IF ~p1.ok THEN Trapped(p1.stack, mem, p1.err)
        ELSE
    LET val == ToLeBytes(p1.val)
        p2 == PopI32(p1.stack)
    IN  IF ~p2.ok THEN Trapped(p2.stack, mem, p2.err)
        ELSE
    LET sum == AsUsize(p2.val) + mem_arg.offset        \* addr as usize + mem_arg.offset
    IN  IF sum >= USIZE_MOD /\ checks THEN Panicked(p2.stack, mem)
        ELSE
    LET start == sum % USIZE_MOD
        sum4 == start + 4                               \* addr..addr+4
    IN  IF sum4 >= USIZE_MOD /\ checks THEN Panicked(p2.stack, mem)
        ELSE
    LET end == sum4 % USIZE_MOD
    IN  IF ~mem.some THEN Trapped(p2.stack, mem, ErrNoMemory)
        ELSE IF ~RangeInBounds(mem.data, start, end)     \* get_mut(addr) is None
        THEN Trapped(p2.stack, mem, ErrInvalidMemoryArea(start, end, mem.data.len))
        ELSE Done(p2.stack, [mem EXCEPT !.data = CopyFromSlice(@, start, val)])

\* Instruction::Drop
DropArm(stack, mem) ==
    LET popped == OpStackPop(stack)
    IN  IF ~popped.ok THEN Trapped(popped.stack, mem, popped.err)
        ELSE Done(popped.stack, mem)

\* i32::wrapping_div, i32::wrapping_rem, u32::wrapping_div, u32::wrapping_rem;
\* each panics on a zero right-hand side.
WrappingDiv(op, lhs, rhs) ==
    CASE op = "I32DivS" -> IF lhs = I32_MIN /\ rhs = -1 THEN I32_MIN ELSE TruncDiv(lhs, rhs)
      [] op = "I32RemS" -> IF lhs = I32_MIN /\ rhs = -1 THEN 0 ELSE TruncRem(lhs, rhs)
      [] op = "I32DivU" -> AsI32(lhs \div rhs)
      [] op = "I32RemU" -> AsI32(lhs % rhs)

DivOps == {"I32DivU", "I32DivS", "I32RemU", "I32RemS"}

\* Instruction::I32DivU, I32DivS, I32RemU, I32RemS: lhs is popped first, rhs second
I32DivArm(op, stack, mem) ==
    LET p1 == IF op \in {"I32DivU", "I32RemU"} THEN PopU32(stack) ELSE PopI32(stack)
    IN  IF ~p1.ok THEN Trapped(p1.stack, mem, p1.err)
        ELSE
    LET p2 == IF op \in {"I32DivU", "I32RemU"} THEN PopU32(p1.stack) ELSE PopI32(p1.stack)
    IN  IF ~p2.ok THEN Trapped(p2.stack, mem, p2.err)
        ELSE IF p2.val = 0 THEN Panicked(p2.stack, mem)
        ELSE Done(Push(p2.stack, I32(WrappingDiv(op, p1.val, p2.val))), mem)

\* An addition and a multiplication that stop at the ends of the i32 range
WrappingArith_Saturating(op, lhs, rhs) ==
    LET exact == IF op = "I32Add" THEN lhs + rhs ELSE lhs * rhs
    IN  IF exact > I32_MAX THEN I32_MAX ELSE IF exact < I32_MIN THEN I32_MIN ELSE exact

\* i32::wrapping_add, i32::wrapping_mul
WrappingArith(op, lhs, rhs) ==
    CASE op = "I32Add" -> AsI32(lhs + rhs)
      [] op = "I32Mul" -> AsI32(lhs * rhs)

ArithOps == {"I32Add", "I32Mul"}

\* Instruction::I32Add (the first of the two arms of that name; the second,
\* with wrapping_sub, is never taken) and Instruction::I32Mul: lhs is popped
\* first, rhs second
I32ArithArm(op, stack, mem) ==
    LET p1 == PopI32(stack)
    IN  IF ~p1.ok THEN Trapped(p1.stack, mem, p1.err)
        ELSE
    LET p2 == PopI32(p1.stack)
    IN  IF ~p2.ok THEN Trapped(p2.stack, mem, p2.err)
        ELSE Done(Push(p2.stack, I32(WrappingArith(op, p1.val, p2.val))), mem)

\* The arms of the relational instructions.  I32LeS has none: the arm after
\* I32LeU is a second Instruction::I32GtS, which is never taken.
RelOps == {"I32LtU", "I32LtS", "I32GtU", "I32GtS", "I32LeU", "I32GeS", "I32GeU"}

\* The arms that convert both operands with u32::try_from: I32GeS is one of
\* them and I32GeU is not
UnsignedRelOps == {"I32LtU", "I32GtU", "I32LeU", "I32GeS"}

\* `if lhs < rhs { 1 } else { 0 }` and its peers
Relation(op, lhs, rhs) ==
    CASE op \in {"I32LtU", "I32LtS"} -> IF lhs < rhs THEN 1 ELSE 0
      [] op \in {"I32GtU", "I32GtS"} -> IF lhs > rhs THEN 1 ELSE 0
      [] op = "I32LeU" -> IF lhs <= rhs THEN 1 ELSE 0
      [] op \in {"I32GeS", "I32GeU"} -> IF lhs >= rhs THEN 1 ELSE 0

\* Instruction::I32LtU .. I32GeU: lhs is popped first, rhs second
I32RelArm(op, stack, mem) ==
    LET p1 == IF op \in UnsignedRelOps THEN PopU32(stack) ELSE PopI32(stack)
    IN  IF ~p1.ok THEN Trapped(p1.stack, mem, p1.err)
        ELSE
    LET p2 == IF op \in UnsignedRelOps THEN PopU32(p1.stack) ELSE PopI32(p1.stack)
    IN  IF ~p2.ok THEN Trapped(p2.stack, mem, p2.err)
        ELSE Done(Push(p2.stack, I32(Relation(op, p1.val, p2.val))), mem)

\* The bits of the u32 `u` moved `n` places to the left, the high ones dropped
RECURSIVE ShlBits(_, _)
ShlBits(u, n) == IF n = 0 THEN u ELSE ShlBits((2 * u) % Pow2(I32_BITS), n - 1)

\* i32::rotate_right(lhs, n): n is taken modulo the width
RotateRight(lhs, n) ==
    LET k == n % I32_BITS
        u == AsU32(lhs)
    IN  AsI32((u \div Pow2(k)) + (u % Pow2(k)) * Pow2(I32_BITS - k))

\* i32::shl(lhs, rhs) and i32::shr(lhs, rhs) where the amount is in range or
\* overflow checks are off (the amount is then masked to the width; shr of an
\* i32 keeps the sign), and i32::rotate_right(lhs, rhs as u32)
Shift(op, lhs, rhs) ==
    CASE op = "I32Shl" -> AsI32(ShlBits(AsU32(lhs), rhs % I32_BITS))
      [] op \in {"I32ShrU", "I32ShrS"} -> lhs \div Pow2(rhs % I32_BITS)
      [] op = "I32Rotr" -> RotateRight(lhs, rhs)

\* The arms of the shift and rotate instructions; I32Rotl has none
ShiftOps == {"I32Shl", "I32ShrU", "I32ShrS", "I32Rotr"}

\* Instruction::I32Shl, I32ShrU, I32ShrS, I32Rotr: lhs is popped first, rhs
\* second.  `<<` and `>>` with an amount outside 0..width-1 panic when overflow
\* checks are on.
I32ShiftArm(op, stack, mem, checks) ==
    LET p1 == PopI32(stack)
    IN  IF ~p1.ok THEN Trapped(p1.stack, mem, p1.err)
        ELSE
    LET p2 == PopI32(p1.stack)
    IN  IF ~p2.ok THEN Trapped(p2.stack, mem, p2.err)
        ELSE IF checks /\ op # "I32Rotr" /\ (p2.val < 0 \/ p2.val >= I32_BITS)
             THEN Panicked(p2.stack, mem)
        ELSE Done(Push(p2.stack, I32(Shift(op, p1.val, p2.val))), mem)

---------------------------------------------------------------------------
(* wasi::fd_write.  `io` is what the host's write to standard output       *)
(* returns: [ok |-> TRUE] or [ok |-> FALSE, errno |-> n].                  *)

HostOutcome(kind, stack, mem, err, out) ==
    [kind |-> kind, operand_stack |-> stack, memory |-> mem, err |-> err, stdout |-> out]

\* InstanceRef::op_stack_pop_u32: pops the top value, which must be a Value::I32,
\* and returns it as u32
OpStackPopU32(stack) == PopU32(stack)

\* The loop of fd_write over the iovec array: the bytes of all buffers, or a panic
\* on an out-of-range slice of mem.data.
RECURSIVE GatherIovecs(_, _, _)
GatherIovecs(data, iovec_ptr, num) ==
    IF num = 0 THEN [panic |-> FALSE, bytes |-> <<>>]
    ELSE IF ~RangeInBounds(data, iovec_ptr, iovec_ptr + 4) THEN Panic
    ELSE
    LET iovec_addr == FromLeBytes(ReadBytes(data, iovec_ptr, 4))
        len_ptr == iovec_ptr + 4
    IN  IF ~RangeInBounds(data, len_ptr, len_ptr + 4) THEN Panic
        ELSE
    LET iovec_len == FromLeBytes(ReadBytes(data, len_ptr, 4))
        after_len == len_ptr + 4
    IN  IF ~RangeInBounds(data, iovec_addr, iovec_addr + iovec_len) THEN Panic
        ELSE
    LET rest == GatherIovecs(data, after_len + iovec_len, num - 1)   \* iovec_ptr += iovec_len
    IN  IF rest.panic THEN Panic
        ELSE [panic |-> FALSE,
              bytes |-> [k \in 1..iovec_len |-> ByteAt(data, iovec_addr + k - 1)] \o rest.bytes]

\* wasi::fd_write
FdWrite(stack, mem, out, io) ==
    LET p1 == OpStackPopU32(stack)                                  \* arg_result_ptr
    IN  IF ~p1.ok THEN HostOutcome("err", p1.stack, mem, p1.err, out)
        ELSE
    LET p2 == OpStackPopU32(p1.stack)                               \* arg_iovec_num
    IN  IF ~p2.ok THEN HostOutcome("err", p2.stack, mem, p2.err, out)
        ELSE
    LET p3 == OpStackPopU32(p2.stack)                               \* arg_iovec_ptr
    IN  IF ~p3.ok THEN HostOutcome("err", p3.stack, mem, p3.err, out)
        ELSE
    LET p4 == OpStackPopU32(p3.stack)                               \* arg_fd
    IN  IF ~p4.ok THEN HostOutcome("err", p4.stack, mem, p4.err, out)
        ELSE IF ~mem.some THEN HostOutcome("panic", p4.stack, mem, NoError, out)  \* unwrap()
        ELSE
    LET gathered == GatherIovecs(mem.data, p3.val, p2.val)
    IN  IF gathered.panic THEN HostOutcome("panic", p4.stack, mem, NoError, out)
        ELSE
    LET written == IF io.ok THEN out \o gathered.bytes ELSE out  \* io::stdout().write_vectored
        count == IF io.ok THEN Len(gathered.bytes) ELSE 0
        errno == IF io.ok THEN 0 ELSE io.errno
    IN  IF ~RangeInBounds(mem.data, p1.val, p1.val + 4)
        THEN HostOutcome("panic", p4.stack, mem, NoError, written)
        ELSE HostOutcome("ok", Push(p4.stack, I32(errno)),
                         [mem EXCEPT !.data = CopyFromSlice(@, p1.val, ToLeBytes(count))],
                         NoError, written)

IoOutcomes == {[ok |-> TRUE, errno |-> 0], [ok |-> FALSE, errno |-> -1], [ok |-> FALSE, errno |-> 32]}

---------------------------------------------------------------------------
(* Instructions, functions and modules *)

Plain(op) == [op |-> op]

I32Const(val) == [op |-> "I32Const", val |-> val]

I32Store(align, offset) == [op |-> "I32Store", mem_arg |-> [align |-> align, offset |-> offset]]

Block(instructions) == [op |-> "Block", block_type |-> 64, instructions |-> instructions]

Loop(instructions) == [op |-> "Loop", block_type |-> 64, instructions |-> instructions]

If(if_instructions, else_instructions) ==
    [op |-> "If", block_type |-> 64, if_instructions |-> if_instructions,
     else_instructions |-> else_instructions]

Call(function_index) == [op |-> "Call", function_index |-> function_index]

LocalGet(index) == [op |-> "LocalGet", index |-> index]

Br(label_index) == [op |-> "Br", label_index |-> label_index]

\* The instructions execute_instructions has a match arm for; every other
\* instruction falls to the catch-all arm.  I32Sub, I32LeS, I32Shl's peers with
\* no arm (I32Rotl) and all other variants are not in this set.
ArmOps == {"Unreachable", "Nop", "Block", "Loop", "If", "Return", "I32Const", "I32Store",
           "Call", "Drop", "I32Eqz", "I32Eq", "I32Add", "I32Mul", "I32DivU", "I32DivS",
           "I32RemU", "I32RemS", "I32And", "I32Or", "I32Xor", "I32Shl", "I32ShrU",
           "I32ShrS", "I32Rotr", "I32Clz", "I32Ctz", "I32Popcnt", "I32Ne", "I32LtU",
           "I32LtS", "I32GtU", "I32GtS", "I32LeU", "I32GeS", "I32GeU"}

\* FunctionSignature
FunctionSignature(params, results) == [params |-> params, results |-> results]

\* WasmFunction of the type () -> (): Option<String> is <<>> for None and <<s>>
\* for Some(s)
WasmFunction(export_name, body) ==
    [export_name |-> export_name, signature |-> FunctionSignature(<<>>, <<>>),
     body |-> body]

\* WasmFunction of the type () -> (results)
WasmFunctionReturning(export_name, results, body) ==
    [WasmFunction(export_name, body) EXCEPT !.signature.results = results]

\* ExternFunction
ExternFunction(mod, field) == [name |-> [module |-> mod, field |-> field]]

\* MemoryBlueprint and DataSegment
MemoryBlueprint(start, end, init) ==
    [some |-> TRUE, page_limit |-> [start |-> start, end |-> end], init |-> init]

DataSegment(addr, data) == [addr |-> addr, data |-> data]

\* Module
Module(imports, wasm, memory_blueprint) ==
    [functions |-> [imports |-> imports, wasm |-> wasm], memory_blueprint |-> memory_blueprint]

\* Callable
RustFunction(mod, field) == [kind |-> "RustFunction", name |-> [module |-> mod, field |-> field]]

WasmCallable(wasm_func) == [kind |-> "WasmFunction", func |-> wasm_func]

---------------------------------------------------------------------------
(* The modules the instance is built from *)

FdWriteImport == ExternFunction("wasi_snapshot_preview1", "fd_write")

ImportList(n) ==
    CASE n = 0 -> <<>>
      [] n = 1 -> <<FdWriteImport>>
      [] n = 2 -> <<FdWriteImport, ExternFunction("env", "print")>>

OnePage == MemoryBlueprint(1, 2, <<>>)

\* The smallest page count whose memory holds an address with the i32 sign bit set
BigPages == (Pow2(I32_BITS - 1) \div MEMORY_PAGE_SIZE) + 1

HelperA == WasmFunction(<<>>, <<I32Const(5)>>)

HelperB == WasmFunction(<<>>, <<Block(<<Plain("Unreachable"), I32Const(2)>>), I32Const(6)>>)

\* _start first, calling by index; index 1 (the start function itself) is left out
CallModules ==
    { Module(ImportList(n),
             <<WasmFunction(<<"_start">>, <<I32Const(1), Call(k), I32Const(7)>>), HelperA, HelperB>>,
             None) : n \in 0..2, k \in {0, 2, 3, 4, 5} }
    \cup
    { Module(ImportList(n),
             <<WasmFunction(<<>>, <<I32Const(5), Plain("Return"), I32Const(9)>>),
               WasmFunction(<<"_start">>, <<Call(1), I32Const(3)>>)>>,
             None) : n \in 0..2 }

ControlBodies ==
    { <<>>,
      <<I32Const(1), Plain("Return"), I32Const(2)>>,
      <<Block(<<I32Const(1), Plain("Return"), I32Const(2)>>), I32Const(3)>>,
      <<Loop(<<Plain("Return")>>), I32Const(3)>>,
      <<If(<<>>, <<>>)>>,
      <<Plain("Nop"), Plain("Unreachable"), Plain("Nop")>>,
      <<I32Const(1), Block(<<Loop(<<Plain("Unreachable")>>), I32Const(2)>>), I32Const(3)>>,
      <<Plain("Drop")>>,
      <<I32Const(1), I32Const(2), Plain("Drop")>>,
      <<I32Const(4), LocalGet(0), Plain("I32Sub"), Br(0), I32Const(5)>>,
      <<I32Const(0), If(<<I32Const(10)>>, <<>>), I32Const(3)>>,
      <<I32Const(7), [op |-> "GlobalSet", index |-> 0], Plain("I64Add"),
        [op |-> "I32Load", mem_arg |-> [align |-> 2, offset |-> 0]],
        [op |-> "F32Const", val |-> 0], I32Const(8)>> }
    \cup
    { <<I32Const(c), If(<<I32Const(10), Plain("Return"), I32Const(11)>>, <<I32Const(20)>>),
        I32Const(3)>> : c \in {0, 1, -1} }

ControlModules ==
    { Module(ImportList(1), <<WasmFunction(<<"_start">>, body)>>, OnePage) : body \in ControlBodies }

StoreBases == {0, 1, -1, I32_MIN, MEMORY_PAGE_SIZE - 4, MEMORY_PAGE_SIZE - 3}

StoreModules ==
    { Module(ImportList(1),
             <<WasmFunction(<<"_start">>, <<I32Const(base), I32Const(val), I32Store(0, offset)>>)>>,
             blueprint) :
        base \in StoreBases, val \in {65, -1}, offset \in {0, 1},
        blueprint \in {None, OnePage, MemoryBlueprint(BigPages, BigPages, <<>>)} }

DivModules ==
    { Module(ImportList(1),
             <<WasmFunction(<<"_start">>, <<I32Const(a), I32Const(b), Plain(op)>>)>>,
             None) :
        a \in {I32_MIN, -7, 0, 7}, b \in {-1, 0, 2}, op \in DivOps }

\* Two iovecs {addr 32, len 3} and {addr 35, len 2} at address 0, the text at 32
FdWriteBlueprint ==
    MemoryBlueprint(1, 2, <<DataSegment(0, <<32, 0, 0, 0, 3, 0, 0, 0, 35, 0, 0, 0, 2, 0, 0, 0>>),
                            DataSegment(32, <<72, 105, 10, 111, 107>>)>>)

FdWriteModules ==
    { Module(ImportList(1),
             <<WasmFunction(<<"_start">>,
                            <<I32Const(fd), I32Const(0), I32Const(num), I32Const(result_ptr),
                              Call(0), Plain("Drop")>>)>>,
             blueprint) :
        fd \in {1, 2, 3}, num \in {0, 1, 2}, result_ptr \in {64, MEMORY_PAGE_SIZE - 2},
        blueprint \in {None, FdWriteBlueprint} }

\* No function is exported as "_start"
NoStartModules ==
    { Module(<<>>, <<>>, None),
      Module(ImportList(1), <<WasmFunction(<<"main">>, <<Plain("Nop")>>)>>, None),
      Module(<<>>, <<WasmFunction(<<>>, <<Plain("Nop")>>)>>, OnePage) }

\* Blueprints Memory::from panics on, and the empty memory
MemoryModules ==
    { Module(ImportList(1), <<WasmFunction(<<"_start">>, <<Plain("Nop")>>)>>, blueprint) :
        blueprint \in { MemoryBlueprint(2, 1, <<>>),
                        MemoryBlueprint(1, 1, <<DataSegment(MEMORY_PAGE_SIZE - 1, <<1, 2>>)>>),
                        MemoryBlueprint(0, 0, <<>>) } }

\* Operands pushed in the order a, b and an instruction; with and without a
\* value below the operands
BinaryBodies(as, bs, ops) ==
    { prefix \o <<I32Const(a), I32Const(b), Plain(op)>> :
          prefix \in {<<>>, <<I32Const(9)>>}, a \in as, b \in bs, op \in ops }

ArithModules ==
    { Module(ImportList(1), <<WasmFunction(<<"_start">>, body)>>, None) :
          body \in BinaryBodies({I32_MIN, -1, 5, I32_MAX}, {-1, 7, 256},
                                {"I32Add", "I32Mul", "I32Sub"}) }

RelModules ==
    { Module(ImportList(1), <<WasmFunction(<<"_start">>, body)>>, None) :
          body \in BinaryBodies({-1, 0, 1}, {-1, 0, 1},
                                {"I32LtS", "I32LtU", "I32GtS", "I32GtU", "I32LeS", "I32LeU",
                                 "I32GeS", "I32GeU"}) }

ShiftModules ==
    { Module(ImportList(1), <<WasmFunction(<<"_start">>, body)>>, None) :
          body \in BinaryBodies({-8, 1, 5}, {-1, 0, 1, I32_BITS - 1, I32_BITS, I32_BITS + 1},
                                {"I32Shl", "I32ShrS", "I32ShrU", "I32Rotl", "I32Rotr"}) }

\* _start functions whose bodies are well typed for their signature
TypedStarts ==
    { WasmFunctionReturning(<<"_start">>, <<"I32">>, <<I32Const(3)>>),
      WasmFunctionReturning(<<"_start">>, <<"I32">>,
                            <<I32Const(3), I32Const(4), Plain("Drop")>>),
      WasmFunctionReturning(<<"_start">>, <<"I32">>,
                            <<I32Const(8), I32Const(65), I32Store(2, 0), I32Const(3)>>),
      WasmFunction(<<"_start">>, <<I32Const(3), Plain("Drop")>>),
      WasmFunction(<<"_start">>, <<I32Const(4), I32Const(1), Plain("I32Sub"), Plain("Drop")>>) }

TypedModules == { Module(ImportList(1), <<start>>, OnePage) : start \in TypedStarts }

Modules == CallModules \cup ControlModules \cup StoreModules \cup DivModules
           \cup FdWriteModules \cup NoStartModules \cup MemoryModules \cup TypedModules
           \cup ArithModules \cup RelModules \cup ShiftModules

---------------------------------------------------------------------------
(* Instance *)

\* Instance::new: the function table
InstanceFunctions(m) ==
    <<RustFunction("wasi_snapshot_preview1", "fd_write")>>
    \o [i \in 1..Len(m.functions.wasm) |-> WasmCallable(m.functions.wasm[i])]

\* Instance::new: module.memory_blueprint.map(Memory::from)
InstanceMemory(m) ==
    IF m.memory_blueprint.some THEN MemoryFrom(m.memory_blueprint) ELSE NoPanic(None)

\* No call made yet
NoCall == [op |-> "none"]

Init ==
    /\ module \in Modules
    /\ overflow_checks \in BOOLEAN
    /\ functions = <<>>
    /\ memory = None
    /\ operand_stack = <<>>
    /\ call_stack = <<>>
    /\ frames = <<>>
    /\ status = "parsed"
    /\ error = NoError
    /\ stdout = <<>>
    /\ starts = 0
    /\ bytecode = <<>>
    /\ call = NoCall

\* Instance::new
New ==
    /\ status = "parsed"
    /\ IF InstanceMemory(module).panic
       THEN /\ status' = "aborted"
            /\ UNCHANGED <<functions, memory>>
       ELSE /\ functions' = InstanceFunctions(module)
            /\ memory' = InstanceMemory(module).mem
            /\ status' = "idle"
    /\ operand_stack' = <<>>
    /\ call_stack' = <<>>
    /\ UNCHANGED <<bytecode, call, module, overflow_checks, frames, error, stdout, starts>>

---------------------------------------------------------------------------
(* The interpreter.  `frames` is the stack of active Rust calls: an        *)
(* exec_function frame per called wasm function and an                     *)
(* execute_instructions frame per instruction list being run, with the     *)
(* position of its `for` loop (pc = the next instruction, from 1).         *)

ExecFunctionFrame(function_index) ==
    [kind |-> "exec_function", function_index |-> function_index]

InstructionsFrame(instructions) ==
    [kind |-> "execute_instructions", instructions |-> instructions, pc |-> 1]

Top == frames[Len(frames)]

\* The for loop of the innermost execute_instructions has a next instruction
AtInstruction ==
    /\ status = "running"
    /\ frames # <<>>
    /\ Top.kind = "execute_instructions"
    /\ Top.pc <= Len(Top.instructions)

Cur == Top.instructions[Top.pc]

\* The for loop moves to the next instruction
Advance(fs) == [fs EXCEPT ![Len(fs)].pc = @ + 1]

\* An Err that ends only the innermost active call
Unwind_InnermostOnly(fs) == SubSeq(fs, 1, Len(fs) - 1)

\* An Err leaves every active execute_instructions and exec_function through `?`
Unwind(fs) == <<>>

\* InstanceRef::exec_start: the index of the first function exported as "_start"
IsStartFunction(callable) ==
    /\ callable.kind = "WasmFunction"
    /\ callable.func.export_name = <<"_start">>

StartIndices(table) == {i \in 1..Len(table) : IsStartFunction(table[i])}

StartIndex(table) == (CHOOSE i \in StartIndices(table) : \A j \in StartIndices(table) : i <= j) - 1

\* An exec_function that pushes the index on the call stack before it looks
\* the function up
ExecFunction_PushesFirst(function_index, fs, io) ==
    IF function_index >= Len(functions)
    THEN /\ frames' = Unwind(fs)
         /\ status' = "trapped"
         /\ error' = ErrFunctionIndexOutOfBounds(function_index, Len(functions))
         /\ call_stack' = Append(call_stack, function_index)
         /\ UNCHANGED <<operand_stack, memory, stdout, call>>
    ELSE LET function == functions[function_index + 1]
             pushed == Append(call_stack, function_index)
         IN  IF function.kind = "WasmFunction"
             THEN /\ call_stack' = pushed
                  /\ frames' = fs \o <<ExecFunctionFrame(function_index),
                                       InstructionsFrame(function.func.body)>>
                  /\ status' = "running"
                  /\ error' = NoError
                  /\ UNCHANGED <<operand_stack, memory, stdout, call>>
             ELSE LET out == FdWrite(operand_stack, memory, stdout, io)
                  IN  /\ operand_stack' = out.operand_stack
                      /\ memory' = out.memory
                      /\ stdout' = out.stdout
                      /\ call' = [op |-> "fd_write", io |-> io]
                      /\ CASE out.kind = "ok" ->
                                /\ call_stack' = call_stack       \* pushed, then popped
                                /\ frames' = fs
                                /\ status' = IF fs = <<>> THEN "ok" ELSE "running"
                                /\ error' = NoError
                           [] out.kind = "err" ->
                                /\ call_stack' = pushed
                                /\ frames' = Unwind(fs)
                                /\ status' = "trapped"
                                /\ error' = out.err
                           [] out.kind = "panic" ->
                                /\ call_stack' = pushed
                                /\ frames' = <<>>
                                /\ status' = "aborted"
                                /\ error' = NoError

\* InstanceRef::exec_function(function_index), called with `fs` as the callers' frames
ExecFunction(function_index, fs, io) ==
    IF function_index >= Len(functions)
    THEN /\ frames' = Unwind(fs)
         /\ status' = "trapped"
         /\ error' = ErrFunctionIndexOutOfBounds(function_index, Len(functions))
         /\ UNCHANGED <<operand_stack, memory, call_stack, stdout, call>>
    ELSE LET function == functions[function_index + 1]
             pushed == Append(call_stack, function_index)
         IN  IF function.kind = "WasmFunction"
             THEN /\ call_stack' = pushed
                  /\ frames' = fs \o <<ExecFunctionFrame(function_index),
                                       InstructionsFrame(function.func.body)>>
                  /\ status' = "running"
                  /\ error' = NoError
                  /\ UNCHANGED <<operand_stack, memory, stdout, call>>
             ELSE LET out == FdWrite(operand_stack, memory, stdout, io)
                  IN  /\ operand_stack' = out.operand_stack
                      /\ memory' = out.memory
                      /\ stdout' = out.stdout
                      /\ call' = [op |-> "fd_write", io |-> io]
                      /\ CASE out.kind = "ok" ->
                                /\ call_stack' = call_stack       \* pushed, then popped
                                /\ frames' = fs
                                /\ status' = IF fs = <<>> THEN "ok" ELSE "running"
                                /\ error' = NoError
                           [] out.kind = "err" ->
                                /\ call_stack' = pushed
                                /\ frames' = Unwind(fs)
                                /\ status' = "trapped"
                                /\ error' = out.err
                           [] out.kind = "panic" ->
                                /\ call_stack' = pushed
                                /\ frames' = <<>>
                                /\ status' = "aborted"
                                /\ error' = NoError

\* Ok(()) of execute_instructions: back in the caller, which is exec_function
\* (pops the call stack and returns Ok) or the arm of an enclosing list
ReturnFromInstructions ==
    LET below == SubSeq(frames, 1, Len(frames) - 1)
    IN  IF below[Len(below)].kind = "exec_function"
        THEN /\ call_stack' = SubSeq(call_stack, 1, Len(call_stack) - 1)
             /\ frames' = SubSeq(below, 1, Len(below) - 1)
             /\ status' = IF Len(below) = 1 THEN "ok" ELSE "running"
        ELSE /\ frames' = below
             /\ status' = "running"
             /\ UNCHANGED call_stack

\* The effect of an arm that touches only operand stack and memory
Finish(out) ==
    /\ operand_stack' = out.operand_stack
    /\ memory' = out.memory
    /\ CASE out.kind = "ok" ->
              /\ frames' = Advance(frames)
              /\ UNCHANGED <<status, error>>
         [] out.kind = "err" ->
              /\ frames' = Unwind(frames)
              /\ status' = "trapped"
              /\ error' = out.err
         [] out.kind = "panic" ->
              /\ frames' = <<>>
              /\ status' = "aborted"
              /\ UNCHANGED error
    /\ UNCHANGED <<bytecode, call, module, overflow_checks, functions, call_stack, stdout, starts>>

\* A start that clears the operand stack before it runs _start
Start_ClearsStack ==
    /\ status \in {"idle", "ok", "trapped"}
    /\ starts < MaxStarts
    /\ starts' = starts + 1
    /\ IF StartIndices(functions) = {}
       THEN /\ status' = "aborted"
            /\ UNCHANGED <<operand_stack, memory, call_stack, frames, error, stdout, call>>
       ELSE LET function_index == StartIndex(functions)
            IN  /\ operand_stack' = <<>>
                /\ call_stack' = Append(call_stack, function_index)
                /\ frames' = <<ExecFunctionFrame(function_index),
                               InstructionsFrame(functions[function_index + 1].func.body)>>
                /\ status' = "running"
                /\ error' = NoError
                /\ UNCHANGED <<memory, stdout, call>>
    /\ UNCHANGED <<bytecode, module, overflow_checks, functions>>

\* Instance::start
Start ==
    /\ status \in {"idle", "ok", "trapped"}
    /\ starts < MaxStarts
    /\ starts' = starts + 1
    /\ IF StartIndices(functions) = {}
       THEN /\ status' = "aborted"                     \* expect("No start function")
            /\ UNCHANGED <<operand_stack, memory, call_stack, frames, error, stdout, call>>
       ELSE ExecFunction(StartIndex(functions), <<>>, [ok |-> TRUE, errno |-> 0])
    /\ UNCHANGED <<bytecode, module, overflow_checks, functions>>

ExecUnreachable ==
    /\ AtInstruction
    /\ Cur.op = "Unreachable"
    /\ Finish(Trapped(operand_stack, memory, ErrTrap("Instruction::Unreachable")))

ExecNop ==
    /\ AtInstruction
    /\ Cur.op = "Nop"
    /\ Finish(Done(operand_stack, memory))

\* A Loop that is entered again when its body has run to its end
ExecBlock_LoopRepeats ==
    /\ AtInstruction
    /\ Cur.op \in {"Block", "Loop"}
    /\ frames' = (IF Cur.op = "Loop" THEN frames ELSE Advance(frames)) \o
                      <<InstructionsFrame(Cur.instructions)>>
    /\ UNCHANGED <<bytecode, call, module, overflow_checks, functions, memory, operand_stack, call_stack,
                   status, error, stdout, starts>>

\* Instruction::Block and Instruction::Loop
ExecBlock ==
    /\ AtInstruction
    /\ Cur.op \in {"Block", "Loop"}
    /\ frames' = Advance(frames) \o <<InstructionsFrame(Cur.instructions)>>
    /\ UNCHANGED <<bytecode, call, module, overflow_checks, functions, memory, operand_stack, call_stack,
                   status, error, stdout, starts>>

\* An If that takes the else-body on a nonzero condition
ExecIf_Inverted ==
    /\ AtInstruction
    /\ Cur.op = "If"
    /\ LET condition == PopI32(operand_stack)
       IN  IF ~condition.ok
           THEN Finish(Trapped(condition.stack, memory, condition.err))
           ELSE /\ operand_stack' = condition.stack
                /\ frames' = Advance(frames) \o
                       <<InstructionsFrame(IF condition.val = 0 THEN Cur.if_instructions
                                           ELSE Cur.else_instructions)>>
                /\ UNCHANGED <<bytecode, call, module, overflow_checks, functions, memory, call_stack,
                               status, error, stdout, starts>>

\* Instruction::If
ExecIf ==
    /\ AtInstruction
    /\ Cur.op = "If"
    /\ LET condition == PopI32(operand_stack)
       IN  IF ~condition.ok
           THEN Finish(Trapped(condition.stack, memory, condition.err))
           ELSE /\ operand_stack' = condition.stack
                /\ frames' = Advance(frames) \o
                       <<InstructionsFrame(IF condition.val # 0 THEN Cur.if_instructions
                                           ELSE Cur.else_instructions)>>
                /\ UNCHANGED <<bytecode, call, module, overflow_checks, functions, memory, call_stack,
                               status, error, stdout, starts>>

\* Instruction::Return => break
ExecReturn ==
    /\ AtInstruction
    /\ Cur.op = "Return"
    /\ ReturnFromInstructions
    /\ UNCHANGED <<bytecode, call, module, overflow_checks, functions, memory, operand_stack, error,
                   stdout, starts>>

ExecI32Const ==
    /\ AtInstruction
    /\ Cur.op = "I32Const"
    /\ Finish(Done(Push(operand_stack, I32(Cur.val)), memory))

ExecI32Store ==
    /\ AtInstruction
    /\ Cur.op = "I32Store"
    /\ Finish(I32StoreArm(Cur.mem_arg, operand_stack, memory, overflow_checks))

ExecCall ==
    /\ AtInstruction
    /\ Cur.op = "Call"
    /\ \E io \in IoOutcomes : ExecFunction(Cur.function_index, Advance(frames), io)
    /\ UNCHANGED <<bytecode, module, overflow_checks, functions, starts>>

ExecDrop ==
    /\ AtInstruction
    /\ Cur.op = "Drop"
    /\ Finish(DropArm(operand_stack, memory))

ExecI32Div ==
    /\ AtInstruction
    /\ Cur.op \in DivOps
    /\ Finish(I32DivArm(Cur.op, operand_stack, memory))

ExecI32Arith ==
    /\ AtInstruction
    /\ Cur.op \in ArithOps
    /\ Finish(I32ArithArm(Cur.op, operand_stack, memory))

ExecI32Rel ==
    /\ AtInstruction
    /\ Cur.op \in RelOps
    /\ Finish(I32RelArm(Cur.op, operand_stack, memory))

ExecI32Shift ==
    /\ AtInstruction
    /\ Cur.op \in ShiftOps
    /\ Finish(I32ShiftArm(Cur.op, operand_stack, memory, overflow_checks))

\* A catch-all arm in which Br leaves the body it stands in
ExecUnimplemented_Branches ==
    /\ AtInstruction
    /\ Cur.op \notin ArmOps
    /\ IF Cur.op = "Br"
       THEN /\ frames' = [frames EXCEPT ![Len(frames)].pc = Len(Top.instructions) + 1]
            /\ UNCHANGED <<bytecode, call, module, overflow_checks, functions, memory,
                           operand_stack, call_stack, status, error, stdout, starts>>
       ELSE Finish(Done(operand_stack, memory))

\* The catch-all arm: logs and goes on
ExecUnimplemented ==
    /\ AtInstruction
    /\ Cur.op \notin ArmOps
    /\ Finish(Done(operand_stack, memory))

\* The for loop of the innermost execute_instructions is over: Ok(())
EndOfInstructions ==
    /\ status = "running"
    /\ frames # <<>>
    /\ Top.kind = "execute_instructions"
    /\ Top.pc > Len(Top.instructions)
    /\ ReturnFromInstructions
    /\ UNCHANGED <<bytecode, call, module, overflow_checks, functions, memory, operand_stack, error,
                   stdout, starts>>

Next ==
    \/ New
    \/ Start
    \/ ExecUnreachable
    \/ ExecNop
    \/ ExecBlock
    \/ ExecIf
    \/ ExecReturn
    \/ ExecI32Const
    \/ ExecI32Store
    \/ ExecCall
    \/ ExecDrop
    \/ ExecI32Div
    \/ ExecI32Arith
    \/ ExecI32Rel
    \/ ExecI32Shift
    \/ ExecUnimplemented
    \/ EndOfInstructions

Spec == Init /\ [][Next]_vars

\* The steps start() takes by itself once it is called, the Call arm aside:
\* the for loop of execute_instructions and the returns of exec_function
ExecuteInstructions ==
    \/ ExecUnreachable
    \/ ExecNop
    \/ ExecBlock
    \/ ExecIf
    \/ ExecReturn
    \/ ExecI32Const
    \/ ExecI32Store
    \/ ExecDrop
    \/ ExecI32Div
    \/ ExecI32Arith
    \/ ExecI32Rel
    \/ ExecI32Shift
    \/ ExecUnimplemented
    \/ EndOfInstructions

\* The states in which the Call arm is the next step: exec_function has an
\* outcome for every index and every operand stack, so ExecCall is enabled
\* exactly here
AtCall == AtInstruction /\ Cur.op = "Call"

\* start() is one synchronous call on one thread: once entered, the
\* interpreter takes its next step whenever it has one.  New and Start are
\* the caller's and may never come.  The last conjunct is WF_vars(ExecCall)
\* with AtCall written for ENABLED <<ExecCall>>_vars.
SpecTerminates ==
    /\ Init /\ [][Next]_vars
    /\ WF_vars(ExecuteInstructions)
    /\ ([]<>(~AtCall) \/ []<><<ExecCall>>_vars)

---------------------------------------------------------------------------
(* A Memory used through its own interface: Memory::from(blueprint), then   *)
(* any sequence of Memory::grow and Memory::write::<u32> calls.             *)

MemoryBlueprints ==
    { MemoryBlueprint(start, end, init) :
        start \in 0..2, end \in 0..MaxGrowPages,
        init \in {<<>>, <<DataSegment(MEMORY_PAGE_SIZE - 2, <<7, 9>>)>>} }

WriteAddrs == {0, MEMORY_PAGE_SIZE - 2, 2 * MEMORY_PAGE_SIZE - 4}

WriteValues == {0, 65, 511}

MemoryInit ==
    /\ module \in {Module(<<>>, <<>>, blueprint) : blueprint \in MemoryBlueprints}
    /\ overflow_checks = FALSE
    /\ functions = <<>>
    /\ memory = None
    /\ operand_stack = <<>>
    /\ call_stack = <<>>
    /\ frames = <<>>
    /\ status = "parsed"
    /\ error = NoError
    /\ stdout = <<>>
    /\ starts = 0
    /\ bytecode = <<>>
    /\ call = NoCall

\* Memory::from(blueprint)
MemoryNew ==
    /\ status = "parsed"
    /\ LET made == MemoryFrom(module.memory_blueprint)
       IN  IF made.panic
           THEN status' = "aborted" /\ UNCHANGED memory
           ELSE status' = "idle" /\ memory' = made.mem
    /\ call' = [op |-> "from"]
    /\ UNCHANGED <<bytecode, module, overflow_checks, functions, operand_stack, call_stack, frames,
                   error, stdout, starts>>

\* memory.grow(new_page_size)
MemoryGrow ==
    /\ status = "idle"
    /\ \E new_page_size \in 0..MaxGrowPages :
          LET grown == Grow(memory, new_page_size)
          IN  /\ IF grown.panic
                 THEN status' = "aborted" /\ UNCHANGED memory
                 ELSE status' = "idle" /\ memory' = grown.mem
              /\ call' = [op |-> "grow", new_page_size |-> new_page_size]
    /\ UNCHANGED <<bytecode, module, overflow_checks, functions, operand_stack, call_stack, frames,
                   error, stdout, starts>>

\* memory.write(&value, addr) for a u32 value
MemoryWrite ==
    /\ status = "idle"
    /\ \E addr \in WriteAddrs, value \in WriteValues :
          LET wrote == MemWriteU32(memory, value, addr)
          IN  /\ IF wrote.panic
                 THEN status' = "aborted" /\ UNCHANGED memory
                 ELSE status' = "idle" /\ memory' = wrote.mem
              /\ call' = [op |-> "write", addr |-> addr, value |-> value]
    /\ UNCHANGED <<bytecode, module, overflow_checks, functions, operand_stack, call_stack, frames,
                   error, stdout, starts>>

MemoryNext == MemoryNew \/ MemoryGrow \/ MemoryWrite

SpecMemory == MemoryInit /\ [][MemoryNext]_vars

---------------------------------------------------------------------------
(* The decoder (Parser).  The byte source is the sequence `bytes` and the   *)
(* position `pos` of the next byte to read (from 1).  A read returns        *)
(* [kind |-> "ok", val, pos], [kind |-> "err", err] or [kind |-> "panic"].  *)

ReadOk(val, pos) == [kind |-> "ok", val |-> val, pos |-> pos]

ReadErr(err) == [kind |-> "err", err |-> err]

ReadPanic == [kind |-> "panic"]

\* ParsingError
ParsingError(kind) == [kind |-> kind]

ErrIllegalVersion(version) == [kind |-> "IllegalVersion", version |-> version]

ErrUnknownNumber(kind, number) == [kind |-> kind, number |-> number]

ErrExpectedOpcode(opcode) == [kind |-> "ExpectedOpcode", opcode |-> opcode]

ErrLeb128(why) == [kind |-> "Leb128Error", why |-> why]

\* Parser::read_byte
ReadByte(bytes, pos) ==
    IF pos > Len(bytes) THEN ReadErr(ParsingError("IoError"))
    ELSE ReadOk(bytes[pos], pos + 1)

\* self.bytecode.read_exact(&mut buf) for a buffer of n bytes
ReadExact(bytes, pos, n) ==
    IF pos + n - 1 > Len(bytes) THEN ReadErr(ParsingError("IoError"))
    ELSE ReadOk(SubSeq(bytes, pos, pos + n - 1), pos + n)

\* leb128::read::unsigned
RECURSIVE Leb128Unsigned(_, _, _, _)
Leb128Unsigned(bytes, pos, result, shift) ==
    IF pos > Len(bytes) THEN ReadErr(ErrLeb128("IoError"))
    ELSE LET byte == bytes[pos]
         IN  IF shift = 63 /\ byte # 0 /\ byte # 1 THEN ReadErr(ErrLeb128("Overflow"))
             ELSE LET merged == result + (byte % 128) * Pow2(shift)
                  IN  IF byte < 128 THEN ReadOk(merged, pos + 1)
                      ELSE Leb128Unsigned(bytes, pos + 1, merged, shift + 7)

\* leb128::read::unsigned(&mut self.bytecode)? as usize
ReadUsize(bytes, pos) ==
    LET r == Leb128Unsigned(bytes, pos, 0, 0)
    IN  IF r.kind = "ok" THEN ReadOk(r.val % USIZE_MOD, r.pos) ELSE r

\* String::from_utf8 accepts the bytes: well-formed UTF-8
RECURSIVE ValidUtf8(_)
ValidUtf8(b) ==
    LET Cont(k) == k <= Len(b) /\ b[k] \in 128..191
        Rest(k) == ValidUtf8(SubSeq(b, k, Len(b)))
    IN  IF b = <<>> THEN TRUE
        ELSE IF b[1] < 128 THEN Rest(2)
        ELSE IF b[1] \in 194..223 THEN Cont(2) /\ Rest(3)
        ELSE IF b[1] = 224 THEN Cont(2) /\ b[2] >= 160 /\ Cont(3) /\ Rest(4)
        ELSE IF b[1] = 237 THEN Cont(2) /\ b[2] <= 159 /\ Cont(3) /\ Rest(4)
        ELSE IF b[1] \in 225..239 THEN Cont(2) /\ Cont(3) /\ Rest(4)
        ELSE IF b[1] = 240 THEN Cont(2) /\ b[2] >= 144 /\ Cont(3) /\ Cont(4) /\ Rest(5)
        ELSE IF b[1] = 244 THEN Cont(2) /\ b[2] <= 143 /\ Cont(3) /\ Cont(4) /\ Rest(5)
        ELSE IF b[1] \in 241..243 THEN Cont(2) /\ Cont(3) /\ Cont(4) /\ Rest(5)
        ELSE FALSE

\* The strings the byte sources use, with their UTF-8 bytes
Utf8Names ==
    { <<"_start", <<95, 115, 116, 97, 114, 116>>>>,
      <<"main", <<109, 97, 105, 110>>>>,
      <<"memory", <<109, 101, 109, 111, 114, 121>>>>,
      <<"env", <<101, 110, 118>>>>,
      <<"fd_write", <<102, 100, 95, 119, 114, 105, 116, 101>>>>,
      <<"wasi_snapshot_preview1",
        <<119, 97, 115, 105, 95, 115, 110, 97, 112, 115, 104, 111, 116, 95,
          112, 114, 101, 118, 105, 101, 119, 49>>>>,
      <<"", <<>>>> }

\* The UTF-8 bytes of a string
Utf8(s) == (CHOOSE n \in Utf8Names : n[1] = s)[2]

\* The `?` operator on a read: an Err or a panic of `r` is what the caller
\* returns, and the rest of the caller, K, goes on from an Ok
Try(r, K(_)) == IF r.kind # "ok" THEN r ELSE K(r)

\* The `?` operator on X::try_from(byte)
TryFrom(r, K(_)) == IF ~r.ok THEN ReadErr(r.err) ELSE K(r)

\* Parser::read_string
ReadString(bytes, pos) ==
    Try(ReadUsize(bytes, pos), LAMBDA length :
    Try(ReadExact(bytes, length.pos, length.val), LAMBDA string :
    IF ~ValidUtf8(string.val) THEN ReadErr(ParsingError("Utf8Error"))
        ELSE ReadOk((CHOOSE n \in Utf8Names : n[2] = string.val)[1], string.pos)))

\* enum Opcode: the name of the opcode with discriminant b at index b + 1, ""
\* where no opcode has that discriminant
OpcodeNames ==
    <<"Unreachable", "Nop", "Block", "Loop", "If", "", "", "", "", "", "", "End", "Br",
      "BrIf", "BrTable", "Return", "Call", "CallIndirect", "", "", "", "", "", "", "", "",
      "Drop", "Select", "SelectValueType", "", "", "", "LocalGet", "LocalSet", "LocalTee",
      "GlobalGet", "GlobalSet", "TableGet", "TableSet", "", "I32Load", "I64Load", "F32Load",
      "F64Load", "I32Load8s", "I32Load8u", "I32Load16s", "I32Load16u", "I64Load8s",
      "I64Load8u", "I64Load16s", "I66Load16u", "I64Load32s", "I64Load32u", "I32Store",
      "I64Store", "F32Store", "F64Store", "I32Store8", "I32Store16", "I64Store8",
      "I64Store16", "I64Store32", "MemorySize", "MemoryGrow", "I32Const", "I64Const",
      "F32Const", "F64Const", "I32Eqz", "I32Eq", "I32Ne", "I32LtS", "I32LtU", "I32GtS",
      "I32GtU", "I32LeS", "I32LeU", "I32GeS", "I32GeU", "I64Eqz", "I64Eq", "I64Ne",
      "I64LtS", "I64LtU", "I64GtS", "I64GtU", "I64LeS", "I64LeU", "I64GeS", "I64GeU",
      "F32Eq", "F32Ne", "F32Lt", "F32Gt", "F32Le", "F32Ge", "F64Eq", "F64Ne", "F64Lt",
      "F64Gt", "F64Le", "F64Ge", "I32Clz", "I32Ctz", "I32Popcnt", "I32Add", "I32Sub",
      "I32Mul", "I32DivS", "I32DivU", "I32RemS", "I32RemU", "I32And", "I32Or", "I32Xor",
      "I32Shl", "I32ShrS", "I32ShrU", "I32Rotl", "I32Rotr", "I64Clz", "I64Ctz", "I64Popcnt",
      "I64Add", "I64Sub", "I64Mul", "I64DivS", "I64DivU", "I64RemS", "I64RemU", "I64And",
      "I64Or", "I64Xor", "I64Shl", "I64ShrS", "I64ShrU", "I64Rotl", "I64Rotr", "F32Abs",
      "F32Neg", "F32Ceil", "F32Floor", "F32Trunc", "F32Nearest", "F32Sqrt", "F32Add",
      "F32Sub", "F32Mul", "F32Div", "F32Min", "F32Max", "F32Copysign", "F64Abs", "F64Neg",
      "F64Ceil", "F64Floor", "F64Trunc", "F64Nearest", "F64Sqrt", "F64Add", "F64Sub",
      "F64Mul", "F64Div", "F64Min", "F64Max", "F64Copysign", "I32WrapI64", "I32TruncF32S",
      "I32TruncF32U", "I32TruncF64S", "I32TruncF64U", "I64ExtendI32S", "I64ExtendI32U",
      "I64TruncF32S", "I64TruncF32U", "I64TruncF64S", "I64TruncF64U", "F32ConvertI32S",
      "F32ConvertI32U", "F32ConvertI64S", "F32ConvertI64", "F32DemoteF64", "F64ConvertI32S",
      "F64ConvertI32U", "F64ConvertI64S", "F64ConvertI64U", "F64PromoteF32",
      "I32ReinterpretF32", "I64ReinterpretF64", "F32ReinterpretI32", "F64ReinterpretI64",
      "I32Extend8S", "I32Extend16S", "I64Extend8S", "I64Extend16S", "I64Extend32S", "", "",
      "", "", "", "", "", "", "", "", "", "RefNull", "RefIsNull", "RefFunc", "", "", "", "",
      "", "", "", "", "", "", "", "", "", "", "", "", "", "", "", "", "", "", "", "", "",
      "", "", "", "", "", "", "", "", "", "", "", "", "", "", "", "", "Extension", "", "",
      "">>

\* Opcode::try_from(byte)
OpcodeTryFrom(byte) ==
    IF OpcodeNames[byte + 1] = "" THEN Err(ErrUnknownNumber("UnknownOpcode", byte))
    ELSE Ok(OpcodeNames[byte + 1])

\* enum Type
TypeNames ==
    { <<127, "I32">>, <<126, "I64">>, <<125, "F32">>, <<124, "F64">>, <<123, "V128">>,
      <<112, "FuncRef">>, <<111, "ExternRef">>, <<96, "Function">>, <<0, "Const">>,
      <<1, "Var">> }

\* Type::try_from(byte)
TypeTryFrom(byte) ==
    IF \E t \in TypeNames : t[1] = byte
    THEN Ok((CHOOSE t \in TypeNames : t[1] = byte)[2])
    ELSE Err(ErrUnknownNumber("UnknownType", byte))

\* enum SectionId
SectionNames ==
    <<"Custom", "Type", "Import", "Function", "Table", "Memory", "Global", "Export",
      "Start", "Element", "Code", "Data", "DataCount">>

\* SectionId::try_from(byte)
SectionIdTryFrom(byte) ==
    IF byte < Len(SectionNames) THEN Ok(SectionNames[byte + 1])
    ELSE Err(ErrUnknownNumber("UnknownSectionId", byte))

\* ExportKind::try_from(byte)
ExportKindTryFrom(byte) ==
    IF byte < 4 THEN Ok(<<"Function", "Table", "Memory", "Global">>[byte + 1])
    ELSE Err(ErrUnknownNumber("UnknownExport", byte))

\* LimitKind::try_from(byte)
LimitKindTryFrom(byte) ==
    IF byte < 2 THEN Ok(<<"Min", "MinMax">>[byte + 1])
    ELSE Err(ErrUnknownNumber("UnknownLimit", byte))

\* DataMode::try_from(byte)
DataModeTryFrom(byte) ==
    IF byte < 3 THEN Ok(<<"ActiveMemory0", "Passive", "Active">>[byte + 1])
    ELSE Err(ErrUnknownNumber("UnknownDataMode", byte))

\* The opcodes parse_instructions turns into the instruction of the same name
\* without immediates
PlainOpcodes ==
    {"Unreachable", "Nop", "Return", "I32Eqz", "I32Eq", "I32Ne", "I32LtS", "I32LtU",
     "I32GtS", "I32GtU", "I32LeS", "I32LeU", "I32GeS", "I32GeU", "I64Eqz", "I64Eq", "I64Ne",
     "I64LtS", "I64LtU", "I64GtS", "I64GtU", "I64LeS", "I64LeU", "I64GeS", "I64GeU",
     "F32Eq", "F32Ne", "F32Lt", "F32Gt", "F32Le", "F32Ge", "F64Eq", "F64Ne", "F64Lt",
     "F64Gt", "F64Le", "F64Ge", "I32Clz", "I32Ctz", "I32Popcnt", "I32Add", "I32Sub",
     "I32Mul", "I32DivS", "I32DivU", "I32RemS", "I32RemU", "I32And", "I32Or", "I32Xor",
     "I32Shl", "I32ShrS", "I32ShrU", "I32Rotl", "I32Rotr", "I64Clz", "I64Ctz", "I64Popcnt",
     "I64Add", "I64Sub", "I64Mul", "I64DivS", "I64DivU", "I64RemS", "I64RemU", "I64And",
     "I64Or", "I64Xor", "I64Shl", "I64ShrS", "I64ShrU", "I64Rotl", "I64Rotr", "F32Abs",
     "F32Neg", "F32Ceil", "F32Floor", "F32Trunc", "F32Nearest", "F32Sqrt", "F32Add",
     "F32Sub", "F32Mul", "F32Div", "F32Min", "F32Max", "F32Copysign", "F64Abs", "F64Neg",
     "F64Ceil", "F64Floor", "F64Trunc", "F64Nearest", "F64Sqrt", "F64Add", "F64Sub",
     "F64Mul", "F64Div", "F64Min", "F64Max", "F64Copysign", "I32WrapI64", "I32TruncF32S",
     "I32TruncF32U", "I32TruncF64S", "I32TruncF64U", "I64ExtendI32S", "I64ExtendI32U",
     "I64TruncF32S", "I64TruncF32U", "I64TruncF64S", "I64TruncF64U", "F32ConvertI32S",
     "F32ConvertI32U", "F32ConvertI64S", "F32ConvertI64", "F32DemoteF64", "F64ConvertI32S",
     "F64ConvertI32U", "F64ConvertI64S", "F64ConvertI64U", "F64PromoteF32",
     "I32ReinterpretF32", "I64ReinterpretF64", "F32ReinterpretI32", "F64ReinterpretI64",
     "I32Extend8S", "I32Extend16S", "I64Extend8S", "I64Extend16S", "I64Extend32S"}

\* The opcodes parse_instructions turns into an instruction carrying a MemArg
MemArgOpcodes ==
    {"I32Load", "I64Load", "F32Load", "F64Load", "I32Load8s", "I32Load8u", "I32Load16s",
     "I32Load16u", "I64Load8s", "I64Load8u", "I64Load16s", "I66Load16u", "I64Load32s",
     "I64Load32u", "I32Store", "I64Store", "F32Store", "F64Store", "I32Store8",
     "I32Store16", "I64Store8", "I64Store16", "I64Store32"}

---------------------------------------------------------------------------
(* Decoding instructions *)

\* Parser::parse_memarg
ParseMemarg(bytes, pos) ==
    Try(ReadUsize(bytes, pos), LAMBDA align :
    Try(ReadUsize(bytes, align.pos), LAMBDA offset :
    ReadOk([align |-> align.val, offset |-> offset.val], offset.pos)))

RECURSIVE ParseInstructions(_, _, _)

\* Parser::parse_block
ParseBlock(bytes, pos) ==
    Try(ParseInstructions(bytes, pos, <<>>), LAMBDA body :
    Try(ReadByte(bytes, body.pos), LAMBDA byte :
    TryFrom(OpcodeTryFrom(byte.val), LAMBDA opcode :
    IF opcode.val # "End" THEN ReadErr(ErrExpectedOpcode("End"))
        ELSE ReadOk(body.val, byte.pos))))

\* Parser::parse_instructions: the loop, with the instructions pushed so far
ParseInstructions(bytes, pos, instructions) ==
    Try(ReadByte(bytes, pos), LAMBDA byte :
    TryFrom(OpcodeTryFrom(byte.val), LAMBDA opcode :
    CASE opcode.val = "End" -> ReadOk(instructions, byte.pos)                 \* break
      [] opcode.val \in PlainOpcodes ->
            ParseInstructions(bytes, byte.pos, Append(instructions, Plain(opcode.val)))
      [] opcode.val = "Block" ->
            Try(ParseBlock(bytes, byte.pos), LAMBDA block :
            ParseInstructions(bytes, block.pos,
                Append(instructions, [op |-> "Block", block_type |-> 0,
                                      instructions |-> block.val])))
      [] opcode.val = "Call" ->
            Try(ReadUsize(bytes, byte.pos), LAMBDA function_index :
            ParseInstructions(bytes, function_index.pos,
                Append(instructions, Call(function_index.val))))
      [] opcode.val = "CallIndirect" ->
            Try(ReadUsize(bytes, byte.pos), LAMBDA table_index :
            Try(ReadUsize(bytes, table_index.pos), LAMBDA type_index :
            ParseInstructions(bytes, type_index.pos,
                Append(instructions, [op |-> "CallIndirect",
                                      table_index |-> table_index.val,
                                      type_index |-> type_index.val]))))
      [] opcode.val \in {"LocalGet", "LocalSet", "LocalTee"} ->
            Try(ReadUsize(bytes, byte.pos), LAMBDA index :
            ParseInstructions(bytes, index.pos,
                Append(instructions, [op |-> opcode.val, index |-> index.val])))
      [] opcode.val \in MemArgOpcodes ->
            Try(ParseMemarg(bytes, byte.pos), LAMBDA mem_arg :
            ParseInstructions(bytes, mem_arg.pos,
                Append(instructions, [op |-> opcode.val, mem_arg |-> mem_arg.val])))
      [] opcode.val \in {"I32Const", "I64Const"} ->
            \* both arms: Instruction::I32Const(leb128::read::unsigned(..)? as i32)
            Try(Leb128Unsigned(bytes, byte.pos, 0, 0), LAMBDA val :
            ParseInstructions(bytes, val.pos,
                Append(instructions, I32Const(AsI32(val.val)))))
      [] opcode.val \in {"F32Const", "F64Const"} ->
            Try(ReadExact(bytes, byte.pos, IF opcode.val = "F32Const" THEN 4 ELSE 8),
                LAMBDA float_bytes :
            ParseInstructions(bytes, float_bytes.pos,
                Append(instructions, [op |-> opcode.val, le_bytes |-> float_bytes.val])))
      [] OTHER -> ParseInstructions(bytes, byte.pos, instructions)))   \* log, continue

---------------------------------------------------------------------------
(* Decoding sections.  `st` is the Parser: [types, wasm_functions_index,    *)
(* functions, memories], the last two being the fields of its module.       *)

\* Function { export_name, signature, locals, body }
Function(export_name, signature, locals, body) ==
    [export_name |-> export_name, signature |-> signature, locals |-> locals, body |-> body]

\* A Parser that starts from the module the previous parse returned
NewParser_KeepsModule ==
    IF call.op = "parse_module" /\ call.result.kind = "ok"
    THEN [types |-> <<>>, wasm_functions_index |-> 0,
          functions |-> call.result.val.functions, memories |-> call.result.val.memories]
    ELSE [types |-> <<>>, wasm_functions_index |-> 0, functions |-> <<>>, memories |-> <<>>]

\* Parser::parse_module: the Parser before the first byte is read
NewParser == [types |-> <<>>, wasm_functions_index |-> 0, functions |-> <<>>, memories |-> <<>>]

\* `for _ in 0..num { Type::try_from(self.read_byte()?)? ; push }`
RECURSIVE ParseTypeList(_, _, _, _)
ParseTypeList(bytes, pos, num, list) ==
    IF num = 0 THEN ReadOk(list, pos)
    ELSE Try(ReadByte(bytes, pos), LAMBDA byte :
    TryFrom(TypeTryFrom(byte.val), LAMBDA type :
    ParseTypeList(bytes, byte.pos, num - 1, Append(list, type.val))))

\* Parser::parse_function_type
ParseFunctionType(bytes, pos) ==
    Try(ReadByte(bytes, pos), LAMBDA byte :
    TryFrom(TypeTryFrom(byte.val), LAMBDA type :
    IF type.val # "Function" THEN ReadPanic      \* panic!("Illegal type for function")
        ELSE
    Try(Leb128Unsigned(bytes, byte.pos, 0, 0), LAMBDA num_params :
    Try(ParseTypeList(bytes, num_params.pos, num_params.val, <<>>), LAMBDA params :
    Try(Leb128Unsigned(bytes, params.pos, 0, 0), LAMBDA num_results :
    Try(ParseTypeList(bytes, num_results.pos, num_results.val, <<>>), LAMBDA results :
    ReadOk([params |-> params.val, results |-> results.val], results.pos)))))))

RECURSIVE ParseFunctionTypes(_, _, _, _)
ParseFunctionTypes(bytes, pos, num, types) ==
    IF num = 0 THEN ReadOk(types, pos)
    ELSE Try(ParseFunctionType(bytes, pos), LAMBDA function_type :
    ParseFunctionTypes(bytes, function_type.pos, num - 1,
                                     Append(types, function_type.val)))

\* Parser::parse_type_section; the driver assigns the result to self.types
ParseTypeSection(bytes, pos, st) ==
    Try(ReadUsize(bytes, pos), LAMBDA num_types :
    Try(ParseFunctionTypes(bytes, num_types.pos, num_types.val, <<>>), LAMBDA types :
    ReadOk([st EXCEPT !.types = types.val], types.pos)))

\* Parser::parse_function_section
RECURSIVE ParseFunctionEntries(_, _, _, _)
ParseFunctionEntries(bytes, pos, num, st) ==
    IF num = 0 THEN ReadOk(st, pos)
    ELSE Try(ReadUsize(bytes, pos), LAMBDA function_type_index :
    IF function_type_index.val >= Len(st.types) THEN ReadPanic
             ELSE ParseFunctionEntries(bytes, function_type_index.pos, num - 1,
                      [st EXCEPT !.functions =
                           Append(@, Function(<<>>, st.types[function_type_index.val + 1],
                                              <<>>, <<>>))]))

ParseFunctionSection(bytes, pos, st) ==
    Try(ReadUsize(bytes, pos), LAMBDA num_functions :
    ParseFunctionEntries(bytes, num_functions.pos, num_functions.val, st))

\* Parser::parse_export
ParseExport(bytes, pos, st) ==
    Try(ReadString(bytes, pos), LAMBDA name :
    Try(ReadByte(bytes, name.pos), LAMBDA byte :
    TryFrom(ExportKindTryFrom(byte.val), LAMBDA kind :
    Try(ReadUsize(bytes, byte.pos), LAMBDA index :
    CASE kind.val = "Function" ->
                    IF index.val >= Len(st.functions) THEN ReadPanic
                    ELSE ReadOk([st EXCEPT !.functions[index.val + 1].export_name =
                                               <<name.val>>], index.pos)
               [] kind.val = "Memory" ->
                    IF index.val >= Len(st.memories) THEN ReadPanic
                    ELSE ReadOk([st EXCEPT !.memories[index.val + 1].name = <<name.val>>],
                                index.pos)
               [] OTHER -> ReadPanic))))   \* unimplemented!()

\* Parser::parse_export_section
RECURSIVE ParseExports(_, _, _, _)
ParseExports(bytes, pos, num, st) ==
    IF num = 0 THEN ReadOk(st, pos)
    ELSE Try(ParseExport(bytes, pos, st), LAMBDA export :
    ParseExports(bytes, export.pos, num - 1, export.val))

ParseExportSection(bytes, pos, st) ==
    Try(ReadUsize(bytes, pos), LAMBDA num_exports :
    ParseExports(bytes, num_exports.pos, num_exports.val, st))

\* Parser::parse_locals
RECURSIVE ParseLocals(_, _, _, _, _)
ParseLocals(bytes, pos, num, function_index, st) ==
    IF num = 0 THEN ReadOk(st, pos)
    ELSE Try(ReadUsize(bytes, pos), LAMBDA num_locals_of_type :
    Try(ReadByte(bytes, num_locals_of_type.pos), LAMBDA byte :
    TryFrom(TypeTryFrom(byte.val), LAMBDA local_type :
    IF function_index >= Len(st.functions) THEN ReadPanic
             ELSE ParseLocals(bytes, byte.pos, num - 1, function_index,
                      [st EXCEPT !.functions[function_index + 1].locals =
                           @ \o [k \in 1..num_locals_of_type.val |-> local_type.val]]))))

\* Parser::parse_function_code
ParseFunctionCode(bytes, pos, function_index, st) ==
    Try(ReadUsize(bytes, pos), LAMBDA code_size :
    Try(ReadUsize(bytes, code_size.pos), LAMBDA num_locals :
    Try(ParseLocals(bytes, num_locals.pos, num_locals.val, function_index, st), LAMBDA locals :
    Try(ParseInstructions(bytes, locals.pos, <<>>), LAMBDA body :
    IF function_index >= Len(st.functions) THEN ReadPanic
        ELSE ReadOk([locals.val EXCEPT !.functions[function_index + 1].body = body.val],
                    body.pos)))))

\* A Code section whose entry i goes to function i
RECURSIVE ParseFunctionCodes_FromZero(_, _, _, _, _)
ParseFunctionCodes_FromZero(bytes, pos, i, num_functions, st) ==
    IF i = num_functions THEN ReadOk(st, pos)
    ELSE Try(ParseFunctionCode(bytes, pos, i, st), LAMBDA code :
    ParseFunctionCodes_FromZero(bytes, code.pos, i + 1, num_functions, code.val))

\* Parser::parse_code_section: entry i goes to function wasm_functions_index + i
RECURSIVE ParseFunctionCodes(_, _, _, _, _)
ParseFunctionCodes(bytes, pos, i, num_functions, st) ==
    IF i = num_functions THEN ReadOk(st, pos)
    ELSE Try(ParseFunctionCode(bytes, pos, st.wasm_functions_index + i, st), LAMBDA code :
    ParseFunctionCodes(bytes, code.pos, i + 1, num_functions, code.val))

ParseCodeSection(bytes, pos, st) ==
    Try(ReadUsize(bytes, pos), LAMBDA num_functions :
    ParseFunctionCodes(bytes, num_functions.pos, 0, num_functions.val, st))

\* Parser::parse_import_section: the imports
RECURSIVE ParseImports(_, _, _, _)
ParseImports(bytes, pos, num, st) ==
    IF num = 0 THEN ReadOk(st, pos)
    ELSE Try(ReadString(bytes, pos), LAMBDA module_name :
    Try(ReadString(bytes, module_name.pos), LAMBDA field_name :
    Try(ReadByte(bytes, field_name.pos), LAMBDA byte :
    TryFrom(ExportKindTryFrom(byte.val), LAMBDA import_kind :
    Try(ReadUsize(bytes, byte.pos), LAMBDA signature_index :
    IF import_kind.val # "Function" THEN ReadPanic          \* unimplemented!()
             ELSE IF signature_index.val >= Len(st.types) THEN ReadPanic
             ELSE ParseImports(bytes, signature_index.pos, num - 1,
                      [st EXCEPT !.functions =
                           Append(@, Function(
                               <<"IMPORT:" \o module_name.val \o "." \o field_name.val>>,
                               st.types[signature_index.val + 1], <<>>, <<>>))]))))))

ParseImportSection(bytes, pos, st) ==
    Try(ReadUsize(bytes, pos), LAMBDA num_imports :
    ParseImports(bytes, num_imports.pos, num_imports.val,
                          [st EXCEPT !.wasm_functions_index = num_imports.val]))

\* u32::MAX as usize
U32_MAX == Pow2(I32_BITS) - 1

\* Parser::parse_memory_section: the memories
RECURSIVE ParseMemories(_, _, _, _)
ParseMemories(bytes, pos, num, st) ==
    IF num = 0 THEN ReadOk(st, pos)
    ELSE Try(ReadByte(bytes, pos), LAMBDA byte :
         TryFrom(LimitKindTryFrom(byte.val), LAMBDA memory_limit_kind :
         Try(ReadUsize(bytes, byte.pos), LAMBDA min :
         Try(IF memory_limit_kind.val = "Min" THEN ReadOk(U32_MAX, min.pos)
             ELSE ReadUsize(bytes, min.pos), LAMBDA max :
         ParseMemories(bytes, max.pos, num - 1,
             [st EXCEPT !.memories =
                  Append(@, [page_limit |-> [start |-> min.val, end |-> max.val],
                             name |-> <<>>])])))))

ParseMemorySection(bytes, pos, st) ==
    Try(ReadUsize(bytes, pos), LAMBDA num_mems :
    ParseMemories(bytes, num_mems.pos, num_mems.val, st))

\* Parser::parse_data_section: the segments.  The offset expression and the
\* bytes of a segment are read and logged; the Parser is not changed.
RECURSIVE ParseDataSegments(_, _, _, _)
ParseDataSegments(bytes, pos, num, st) ==
    IF num = 0 THEN ReadOk(st, pos)
    ELSE Try(ReadByte(bytes, pos), LAMBDA byte :
    TryFrom(DataModeTryFrom(byte.val), LAMBDA data_mode :
    IF data_mode.val # "ActiveMemory0" THEN ReadPanic       \* unimplemented!()
             ELSE
         Try(ParseInstructions(bytes, byte.pos, <<>>), LAMBDA expression :
         Try(ReadUsize(bytes, expression.pos), LAMBDA segment_size :
         Try(ReadExact(bytes, segment_size.pos, segment_size.val), LAMBDA segment_data :
         ParseDataSegments(bytes, segment_data.pos, num - 1, st))))))

ParseDataSection(bytes, pos, st) ==
    Try(ReadUsize(bytes, pos), LAMBDA num_segments :
    ParseDataSegments(bytes, num_segments.pos, num_segments.val, st))

\* Parser::parse_custom_section
ParseCustomSection(bytes, pos, section_size, st) ==
    Try(ReadExact(bytes, pos, section_size), LAMBDA sink :
    ReadOk(st, sink.pos))

\* self.module, returned by parse_module_internal
ParsedModule(st) == [functions |-> st.functions, memories |-> st.memories]

\* Parser::parse_module_internal: the `while let Ok(section_id) = self.read_byte()` loop
RECURSIVE ParseSections(_, _, _)
ParseSections(bytes, pos, st) ==
    IF ReadByte(bytes, pos).kind # "ok" THEN ReadOk(ParsedModule(st), pos)
    ELSE
    TryFrom(SectionIdTryFrom(bytes[pos]), LAMBDA section_id :
    Try(Leb128Unsigned(bytes, pos + 1, 0, 0), LAMBDA section_size :
    CASE section_id.val = "Type" ->
            Try(ParseTypeSection(bytes, section_size.pos, st), LAMBDA section :
            ParseSections(bytes, section.pos, section.val))
      [] section_id.val = "Function" ->
            Try(ParseFunctionSection(bytes, section_size.pos, st), LAMBDA section :
            ParseSections(bytes, section.pos, section.val))
      [] section_id.val = "Export" ->
            Try(ParseExportSection(bytes, section_size.pos, st), LAMBDA section :
            ParseSections(bytes, section.pos, section.val))
      [] section_id.val = "Code" ->
            Try(ParseCodeSection(bytes, section_size.pos, st), LAMBDA section :
            ParseSections(bytes, section.pos, section.val))
      [] section_id.val = "Import" ->
            Try(ParseImportSection(bytes, section_size.pos, st), LAMBDA section :
            ParseSections(bytes, section.pos, section.val))
      [] section_id.val = "Memory" ->
            Try(ParseMemorySection(bytes, section_size.pos, st), LAMBDA section :
            ParseSections(bytes, section.pos, section.val))
      [] section_id.val = "Data" ->
            Try(ParseDataSection(bytes, section_size.pos, st), LAMBDA section :
            ParseSections(bytes, section.pos, section.val))
      [] section_id.val = "Custom" ->
            Try(ParseCustomSection(bytes, section_size.pos, section_size.val, st),
                LAMBDA section :
            ParseSections(bytes, section.pos, section.val))
      [] OTHER ->                                  \* log "Unknown section", break
            ReadOk(ParsedModule(st), section_size.pos)))

\* parse_module_internal without the comparison of the version
ParseModule_VersionUnchecked(bytes) ==
    Try(ReadExact(bytes, 1, 4), LAMBDA magic :
    IF magic.val # <<0, 97, 115, 109>> THEN ReadErr(ParsingError("NotAWasmModule"))
        ELSE
    Try(ReadExact(bytes, magic.pos, 4), LAMBDA version :
        ParseSections(bytes, version.pos, NewParser)))

\* Parser::parse_module
ParseModule(bytes) ==
    Try(ReadExact(bytes, 1, 4), LAMBDA magic :
    IF magic.val # <<0, 97, 115, 109>> THEN ReadErr(ParsingError("NotAWasmModule"))
        ELSE
    Try(ReadExact(bytes, magic.pos, 4), LAMBDA version :
    IF version.val # <<1, 0, 0, 0>> THEN ReadErr(ErrIllegalVersion(version.val))
        ELSE ParseSections(bytes, version.pos, NewParser)))

---------------------------------------------------------------------------
(* Byte sources.  A source is described by what its sections hold and      *)
(* encoded in the binary format the Parser reads.                          *)

\* Unsigned LEB128, as leb128::read::unsigned reads it
RECURSIVE EncodeLeb(_)
EncodeLeb(n) == IF n < 128 THEN <<n>> ELSE <<128 + (n % 128)>> \o EncodeLeb(n \div 128)

\* A string as Parser::read_string reads it
EncodeString(s) == EncodeLeb(Len(Utf8(s))) \o Utf8(s)

\* A section as parse_module_internal reads it: id, section_size, payload
EncodeSection(id, payload) == <<id>> \o EncodeLeb(Len(payload)) \o payload

RECURSIVE Concat(_)
Concat(seqs) == IF seqs = <<>> THEN <<>> ELSE Head(seqs) \o Concat(Tail(seqs))

\* Function bodies: each instruction with its name and its encoding, a Block
\* or Loop also with the names of its nested instructions
SourceBodies ==
    { << <<"Nop", <<1>>>> >>,
      << <<"I32Const", <<65, 5>>>>, <<"Drop", <<26>>>> >>,
      << <<"Drop", <<26>>>> >>,
      << <<"I32Const", <<65, 5>>>>, <<"I32Const", <<65, 6>>>>, <<"Drop", <<26>>>> >>,
      << <<"I32Const", <<65, 1>>>>, <<"I32Const", <<65, 2>>>>, <<"I32Const", <<65, 0>>>>,
         <<"Select", <<27>>>>, <<"Return", <<15>>>> >>,
      << <<"Br", <<12, 0>>>>, <<"Nop", <<1>>>> >>,
      << <<"I32Const", <<65, 1>>>>, <<"BrIf", <<13, 0>>>> >>,
      << <<"GlobalGet", <<35, 0>>>>, <<"Drop", <<26>>>> >>,
      << <<"MemorySize", <<63, 0>>>>, <<"Drop", <<26>>>> >>,
      << <<"Loop", <<3, 64, 1, 11>>, <<"Nop">>>> >>,
      << <<"Block", <<2, 64, 1, 11>>, <<"Nop">>>> >>,
      << <<"I32Const", <<65, 127>>>>, <<"I32Const", <<65, 65>>>> >>,
      << <<"I64Const", <<66, 5>>>>, <<"I64Const", <<66, 128, 128, 8>>>> >>,
      << <<"I32Const", <<65, 192, 0>>>>, <<"I32Const", <<65, 128, 127>>>> >>,
      << <<"Block", <<2, 64, 1, 11>>, <<"Nop">>>>, <<"Nop", <<1>>>> >>,
      << <<"I32Const", <<65, 1>>>>, <<"If", <<4, 64, 1, 11>>>> >>,
      << <<"I32Const", <<65, 8>>>>, <<"I32Const", <<65, 200, 1>>>>,
         <<"I32Store", <<54, 2, 0>>>> >>,
      << <<"I32Const", <<65, 7>>>>, <<"I32Const", <<65, 2>>>>, <<"I32Add", <<106>>>>,
         <<"Call", <<16, 0>>>> >> }

\* The sections the section driver has no arm for, with a payload
SkippedSections ==
    { [name |-> "Table", id |-> 4, payload |-> <<1, 112, 0, 1>>],
      [name |-> "Global", id |-> 6, payload |-> <<1, 127, 0, 65, 0, 11>>],
      [name |-> "Start", id |-> 8, payload |-> <<0>>],
      [name |-> "Element", id |-> 9, payload |-> <<0>>],
      [name |-> "DataCount", id |-> 12, payload |-> <<1>>] }

NoSection == [name |-> "", id |-> 0, payload |-> <<>>]

\* Data sections: ActiveMemory0 segments with a constant offset
SourceSegments ==
    { <<>>,
      <<DataSegment(8, <<72, 105>>)>>,
      <<DataSegment(0, <<1, 2, 3>>), DataSegment(2, <<9>>)>> }

\* Memory sections: none, a minimum, a minimum and a maximum
SourceLimits == { <<>>, <<1>>, <<1, 2>> }

Sources ==
    { [imports |-> imports, skipped |-> skipped, limits |-> limits, body |-> body,
       segments |-> segments] :
        imports \in 0..1, skipped \in SkippedSections \cup {NoSection},
        limits \in SourceLimits, body \in SourceBodies, segments \in SourceSegments }

EncodeSegment(segment) ==
    <<0, 65>> \o EncodeLeb(segment.addr) \o <<11>>
    \o EncodeLeb(Len(segment.data)) \o segment.data

EncodeCode(body) ==
    LET code == <<0>> \o Concat([k \in 1..Len(body) |-> body[k][2]]) \o <<11>>
    IN  EncodeLeb(Len(code)) \o code

\* The module of source `src`: type () -> (), the imports, one function
\* exported as "_start" with the body, the memory and the data segments, each
\* section at its place in the binary format
EncodeModule(src) ==
    LET Skipped(names) ==
            IF src.skipped.name \in names
            THEN EncodeSection(src.skipped.id, src.skipped.payload) ELSE <<>>
        import == EncodeString("wasi_snapshot_preview1") \o EncodeString("fd_write")
                  \o <<0, 0>>
    IN  <<0, 97, 115, 109, 1, 0, 0, 0>>
        \o EncodeSection(1, <<1, 96, 0, 0>>)
        \o (IF src.imports = 1 THEN EncodeSection(2, <<1>> \o import) ELSE <<>>)
        \o EncodeSection(3, <<1, 0>>)
        \o Skipped({"Table"})
        \o (CASE src.limits = <<>> -> <<>>
              [] Len(src.limits) = 1 -> EncodeSection(5, <<1, 0>> \o EncodeLeb(src.limits[1]))
              [] OTHER -> EncodeSection(5, <<1, 1>> \o EncodeLeb(src.limits[1])
                                           \o EncodeLeb(src.limits[2])))
        \o Skipped({"Global"})
        \o EncodeSection(7, <<1>> \o EncodeString("_start") \o <<0, src.imports>>)
        \o Skipped({"Start", "Element", "DataCount"})
        \o EncodeSection(10, <<1>> \o EncodeCode(src.body))
        \o (IF src.segments = <<>> THEN <<>>
            ELSE EncodeSection(11, <<Len(src.segments)>>
                     \o Concat([k \in 1..Len(src.segments) |->
                                    EncodeSegment(src.segments[k])])))

\* Each source with its bytes
Encoded == { <<src, EncodeModule(src)>> : src \in Sources }

\* Byte sources that are not a module of the binary format
Malformed ==
    { <<>>, <<0, 97, 115>>, <<1, 97, 115, 109, 1, 0, 0, 0>>,
      <<0, 97, 115, 109, 2, 0, 0, 0>>, <<0, 97, 115, 109, 1, 0>>,
      <<0, 97, 115, 109, 1, 0, 0, 0, 13, 0>>, <<0, 97, 115, 109, 1, 0, 0, 0, 1>>,
      <<0, 97, 115, 109, 1, 0, 0, 0, 1, 4, 1, 127, 0, 0>>,
      <<0, 97, 115, 109, 1, 0, 0, 0, 0, 2, 1, 65>> }

\* Headers whose magic or whose version is not the one of the binary format
WrongMagics == { <<1, 97, 115, 109>>, <<0, 97, 115, 0>>, <<109, 115, 97, 0>> }

WrongVersions == { <<2, 0, 0, 0>>, <<1, 0, 0, 1>>, <<0, 0, 0, 1>>, <<0, 97, 115, 109>> }

\* What follows the header: the sections of a module, or other bytes
HeaderTails ==
    { SubSeq(e[2], 9, Len(e[2])) :
          e \in { f \in Encoded : f[1].imports = 0 /\ f[1].skipped = NoSection } }
    \cup { <<>>, <<255>>, <<1, 0, 0, 0>>, <<13, 0>> }

\* Byte sources of at least 8 bytes with a wrong magic or a wrong version
WrongHeaders ==
    { magic \o version \o tail :
          magic \in WrongMagics, version \in {<<1, 0, 0, 0>>}, tail \in HeaderTails }
    \cup { <<0, 97, 115, 109>> \o version \o tail :
               version \in WrongVersions, tail \in HeaderTails }

\* Entries of a Type section: the leading byte, the params and the results
TypeEntries ==
    { [lead |-> 96, params |-> <<127, 127>>, results |-> <<127>>],
      [lead |-> 96, params |-> <<127>>, results |-> <<127>>],
      [lead |-> 96, params |-> <<>>, results |-> <<>>],
      [lead |-> 96, params |-> <<126, 127>>, results |-> <<127, 126>>],
      [lead |-> 127, params |-> <<>>, results |-> <<>>],
      [lead |-> 0, params |-> <<127>>, results |-> <<>>],
      [lead |-> 5, params |-> <<>>, results |-> <<>>] }

\* Type sections of at most MaxTypes entries
TypeLists ==
    UNION { [1..k -> TypeEntries] : k \in 0..MaxTypes }

EncodeTypeEntry(entry) ==
    <<entry.lead, Len(entry.params)>> \o entry.params
    \o <<Len(entry.results)>> \o entry.results

\* A module of a Type section with the entries and a Function section with one
\* function of each type, in order
EncodeTypes(entries) ==
    <<0, 97, 115, 109, 1, 0, 0, 0>>
    \o EncodeSection(1, <<Len(entries)>>
                         \o Concat([k \in 1..Len(entries) |-> EncodeTypeEntry(entries[k])]))
    \o EncodeSection(3, <<Len(entries)>> \o [k \in 1..Len(entries) |-> k - 1])

TypeSources == { <<entries, EncodeTypes(entries)>> : entries \in TypeLists }

\* Groups of locals, each (count, Type), of an entry of the Code section
LocalGroupLists ==
    { <<>>, << <<2, 127>> >>, << <<1, 127>>, <<2, 126>> >>, << <<0, 127>>, <<1, 126>> >> }

\* Entries of the Code section: the groups of locals and the body
CodeEntries ==
    { [groups |-> groups, body |-> body] :
          groups \in LocalGroupLists,
          body \in { << <<"Nop", <<1>>>> >>, << <<"Return", <<15>>>>, <<"Nop", <<1>>>> >> } }

\* Code sections of 1..MaxCodes entries, in modules with and without an import
CodeLists ==
    { [imports |-> imports, entries |-> entries] :
          imports \in 0..1, entries \in UNION { [1..n -> CodeEntries] : n \in 1..MaxCodes } }

EncodeCodeEntry(entry) ==
    LET code == <<Len(entry.groups)>>
                \o Concat([k \in 1..Len(entry.groups) |-> entry.groups[k]])
                \o Concat([k \in 1..Len(entry.body) |-> entry.body[k][2]]) \o <<11>>
    IN  EncodeLeb(Len(code)) \o code

\* A module of the type () -> (), the import, one function per entry of the
\* Code section, and the Code section
EncodeCodes(src) ==
    <<0, 97, 115, 109, 1, 0, 0, 0>>
    \o EncodeSection(1, <<1, 96, 0, 0>>)
    \o (IF src.imports = 1
        THEN EncodeSection(2, <<1>> \o EncodeString("wasi_snapshot_preview1")
                                  \o EncodeString("fd_write") \o <<0, 0>>)
        ELSE <<>>)
    \o EncodeSection(3, <<Len(src.entries)>> \o [k \in 1..Len(src.entries) |-> 0])
    \o EncodeSection(10, <<Len(src.entries)>>
                          \o Concat([k \in 1..Len(src.entries) |->
                                         EncodeCodeEntry(src.entries[k])]))

CodeSources == { <<src, EncodeCodes(src)>> : src \in CodeLists }

Bytecodes == { e[2] : e \in Encoded } \cup Malformed \cup WrongHeaders
             \cup { e[2] : e \in TypeSources } \cup { e[2] : e \in CodeSources }

\* The Module Instance::new takes, from the module the Parser returns: every
\* function the Parser pushed is a Callable::WasmFunction, the memory is the
\* first of `memories`, and no field of the Parser's module holds data segments
ModuleFrom(parsed) ==
    Module(<<>>,
           [k \in 1..Len(parsed.functions) |->
                [WasmFunction(parsed.functions[k].export_name, parsed.functions[k].body)
                     EXCEPT !.signature = parsed.functions[k].signature]],
           IF parsed.memories = <<>> THEN None
           ELSE MemoryBlueprint(parsed.memories[1].page_limit.start,
                                parsed.memories[1].page_limit.end, <<>>))

ParseInit ==
    /\ bytecode \in Bytecodes
    /\ module = Module(<<>>, <<>>, None)
    /\ overflow_checks = FALSE
    /\ functions = <<>>
    /\ memory = None
    /\ operand_stack = <<>>
    /\ call_stack = <<>>
    /\ frames = <<>>
    /\ status = "bytes"
    /\ error = NoError
    /\ stdout = <<>>
    /\ starts = 0
    /\ call = NoCall

\* Module::new(bytecode) / Parser::parse_module(bytecode)
Parse ==
    /\ status = "bytes"
    /\ LET parsed == ParseModule(bytecode)
       IN  /\ call' = [op |-> "parse_module", result |-> parsed, nth |-> 1]
           /\ CASE parsed.kind = "ok" ->
                     /\ module' = ModuleFrom(parsed.val)
                     /\ status' = "parsed"
                     /\ UNCHANGED error
                [] parsed.kind = "err" ->
                     /\ status' = "parse_error"
                     /\ error' = parsed.err
                     /\ UNCHANGED module
                [] parsed.kind = "panic" ->
                     /\ status' = "aborted"
                     /\ UNCHANGED <<module, error>>
    /\ UNCHANGED <<bytecode, overflow_checks, functions, memory, operand_stack, call_stack,
                   frames, stdout, starts>>

\* Another Parser::parse_module over the same bytes, the earlier result at hand
ParseAgain ==
    /\ status \in {"parsed", "parse_error"}
    /\ call.op = "parse_module"
    /\ call.nth < MaxParses
    /\ LET parsed == ParseModule(bytecode)
       IN  /\ call' = [op |-> "parse_module", result |-> parsed, nth |-> call.nth + 1]
           /\ CASE parsed.kind = "ok" ->
                     /\ module' = ModuleFrom(parsed.val)
                     /\ status' = "parsed"
                     /\ error' = NoError
                [] parsed.kind = "err" ->
                     /\ status' = "parse_error"
                     /\ error' = parsed.err
                     /\ UNCHANGED module
                [] parsed.kind = "panic" ->
                     /\ status' = "aborted"
                     /\ UNCHANGED <<module, error>>
    /\ UNCHANGED <<bytecode, overflow_checks, functions, memory, operand_stack, call_stack,
                   frames, stdout, starts>>

ParseNext == Parse \/ ParseAgain \/ New

SpecParse == ParseInit /\ [][ParseNext]_vars

---------------------------------------------------------------------------
(* From bytes to a run: a module is decoded from a byte source, or handed  *)
(* over as a value, then instantiated and started.                         *)

RunInit == Init \/ ParseInit

RunNext == Parse \/ ParseAgain \/ Next

SpecRun == RunInit /\ [][RunNext]_vars

---------------------------------------------------------------------------
(* OperandStack used through its own interface: push::<T> and pop::<T>.    *)
(* An i64 and a u64 have I64_BITS bits, the width of a usize.               *)

I64_BITS == USIZE_BITS

I64_MIN == -Pow2(I64_BITS - 1)

I64_MAX == Pow2(I64_BITS - 1) - 1

\* `x as u64` / `x as usize` for an i64 x: the same bits read as unsigned
AsU64(x) == x % Pow2(I64_BITS)

\* `x as i64` for a u64 or usize x: the same bits read as signed
AsI64(x) == IF x % Pow2(I64_BITS) > I64_MAX
            THEN (x % Pow2(I64_BITS)) - Pow2(I64_BITS)
            ELSE x % Pow2(I64_BITS)

I64(v) == [tag |-> "I64", val |-> v]

\* The variants of Value that are not integers; floats by their bits
OtherValues ==
    { [tag |-> "F32", val |-> 0], [tag |-> "F64", val |-> 1], [tag |-> "V128"],
      [tag |-> "FuncRef"] }

\* impl TryFrom<Value> for i64
TryFromI64(value) ==
    IF value.tag = "I64" THEN Ok(value.val)
    ELSE Err(ErrStackTypeError("i64", value))

\* impl TryFrom<Value> for u64
TryFromU64(value) ==
    IF value.tag = "I64" THEN Ok(AsU64(value.val))
    ELSE Err(ErrStackTypeError("i64(u64)", value))

\* impl TryFrom<Value> for usize
TryFromUsize(value) ==
    IF value.tag = "I64" THEN Ok(AsU64(value.val))
    ELSE Err(ErrStackTypeError("usize", value))

\* The types T with a TryFrom<Value> and an Into<Value> impl
StackTypes == {"i32", "u32", "i64", "u64", "usize"}

\* T::try_from(value)
ValueTryFrom(T, value) ==
    CASE T = "i32" -> TryFromI32(value)
      [] T = "u32" -> TryFromU32(value)
      [] T = "i64" -> TryFromI64(value)
      [] T = "u64" -> TryFromU64(value)
      [] T = "usize" -> TryFromUsize(value)

\* impl Into<Value> for T; a Value converts into itself
IntoValue(T, v) ==
    CASE T = "i32" -> I32(v)
      [] T = "u32" -> I32(AsI32(v))
      [] T = "i64" -> I64(v)
      [] T = "u64" -> I64(AsI64(v))
      [] T = "usize" -> I64(AsI64(v))
      [] T = "Value" -> v

\* The arguments of push::<T>
PushArgs(T) ==
    CASE T = "i32" -> {I32_MIN, -1, 0, 5, I32_MAX}
      [] T = "u32" -> {0, 5, I32_MAX + 1, Pow2(I32_BITS) - 1}
      [] T = "i64" -> {I64_MIN, -1, 0, I64_MAX}
      [] T = "u64" -> {0, I64_MAX + 1, Pow2(I64_BITS) - 1}
      [] T = "usize" -> {0, Pow2(I64_BITS) - 1}
      [] T = "Value" -> OtherValues

\* OperandStack::push::<T>(value)
OperandStackPush(stack, T, value) == Append(stack, IntoValue(T, value))

\* A pop that returns the converted top value and leaves it on the stack
OperandStackPop_KeepsValue(stack, T) ==
    IF stack = <<>> THEN [result |-> Err(ErrPopOnEmptyOperandStack), stack |-> stack]
    ELSE LET value == stack[Len(stack)]
             conv == ValueTryFrom(T, value)
         IN  [result |-> IF conv.ok THEN conv ELSE Err(ErrStackTypeError(T, value)),
              stack |-> stack]

\* OperandStack::pop::<T>(): the Result and the stack after the call
OperandStackPop(stack, T) ==
    IF stack = <<>> THEN [result |-> Err(ErrPopOnEmptyOperandStack), stack |-> stack]
    ELSE LET value == stack[Len(stack)]
             conv == ValueTryFrom(T, value)
         IN  [result |-> IF conv.ok THEN conv
                         ELSE Err(ErrStackTypeError(T, value)),   \* type_name::<T>()
              stack |-> SubSeq(stack, 1, Len(stack) - 1)]

StackInit ==
    /\ operand_stack = <<>>
    /\ module = Module(<<>>, <<>>, None)
    /\ overflow_checks = FALSE
    /\ functions = <<>>
    /\ memory = None
    /\ call_stack = <<>>
    /\ frames = <<>>
    /\ status = "idle"
    /\ error = NoError
    /\ stdout = <<>>
    /\ starts = 0
    /\ bytecode = <<>>
    /\ call = NoCall

StackPush ==
    /\ Len(operand_stack) < MaxStackLen
    /\ \E T \in StackTypes \cup {"Value"} : \E value \in PushArgs(T) :
          /\ operand_stack' = OperandStackPush(operand_stack, T, value)
          /\ call' = [op |-> "push", T |-> T, value |-> value]
    /\ UNCHANGED <<bytecode, module, overflow_checks, functions, memory, call_stack, frames,
                   status, error, stdout, starts>>

StackPop ==
    /\ \E T \in StackTypes :
          LET popped == OperandStackPop(operand_stack, T)
          IN  /\ operand_stack' = popped.stack
              /\ call' = [op |-> "pop", T |-> T, result |-> popped.result]
    /\ UNCHANGED <<bytecode, module, overflow_checks, functions, memory, call_stack, frames,
                   status, error, stdout, starts>>

StackNext == StackPush \/ StackPop

SpecStack == StackInit /\ [][StackNext]_vars

---------------------------------------------------------------------------
(* Properties *)

\* An instance exists: Instance::new has returned
Instantiated == functions # <<>>

NumImports == Len(module.functions.imports)

NumWasm == Len(module.functions.wasm)

\* C1: the function table holds the module's n imports, bound to host functions,
\* at indices 0..n-1 and its m wasm functions at n..n+m-1, and every function
\* being executed under index n+i runs the body of the i-th wasm function.
C1_ImportsThenWasm ==
    Instantiated =>
        /\ Len(functions) = NumImports + NumWasm
        /\ \A k \in 1..NumImports :
              /\ functions[k].kind = "RustFunction"
              /\ functions[k].name = module.functions.imports[k].name
        /\ \A i \in 1..NumWasm :
              functions[NumImports + i] = WasmCallable(module.functions.wasm[i])
        /\ \A j \in 1..Len(frames) :
              frames[j].kind = "exec_function" =>
                  /\ frames[j].function_index >= NumImports
                  /\ frames[j + 1].instructions =
                        module.functions.wasm[frames[j].function_index - NumImports + 1].body

\* The frames of the callers of the function being executed
CallerFrames(fs) ==
    LET j == CHOOSE k \in 1..Len(fs) :
                 /\ fs[k].kind = "exec_function"
                 /\ \A i \in (k + 1)..Len(fs) : fs[i].kind # "exec_function"
    IN  SubSeq(fs, 1, j - 1)

\* C2: executing Return, also inside a Block, Loop or If body, ends the whole
\* function body: the operand stack is unchanged and only the callers of the
\* function remain active.
C2_ReturnEndsFunction ==
    [][(AtInstruction /\ Cur.op = "Return") =>
           /\ operand_stack' = operand_stack
           /\ frames' = CallerFrames(frames)]_vars

\* C3: a trap returns a typed error to the embedder with no call of the
\* interpreter left active, and from then on operand stack and memory stay as
\* they were at the trap.
C3_TrapReturnsToEmbedder ==
    [][/\ status' = "trapped" => (frames' = <<>> /\ error'.kind \in ErrorKinds)
       /\ status = "trapped" => (operand_stack' = operand_stack /\ memory' = memory)]_vars

\* A trap inside a called function's nested block, with instructions left in
\* the block, the function and its caller
C3_Witness ==
    /\ status = "trapped"
    /\ error.kind = "Trap"
    /\ Len(call_stack) >= 2
    /\ operand_stack # <<>>

\* C4: whenever control is with the embedder, the call stack is empty.
C4_CallStackUnwound ==
    status \in {"idle", "ok", "trapped"} => call_stack = <<>>

\* C5: start() on an instance without a "_start" function returns the error
\* NoStart and leaves operand stack, memory and call stack unchanged.
C5_NoStartIsError ==
    (Instantiated /\ StartIndices(functions) = {} /\ starts > 0) =>
        /\ status = "trapped"
        /\ error.kind = "NoStart"
        /\ operand_stack = <<>>
        /\ call_stack = <<>>

\* I32Store is about to run with two I32 values on the stack
StoreStep ==
    /\ AtInstruction
    /\ Cur.op = "I32Store"
    /\ Len(operand_stack) >= 2
    /\ operand_stack[Len(operand_stack)].tag = "I32"
    /\ operand_stack[Len(operand_stack) - 1].tag = "I32"

StoreVal == operand_stack[Len(operand_stack)].val

StoreBase == operand_stack[Len(operand_stack) - 1].val

\* base as u32 + offset
StoreAddr == AsU32(StoreBase) + Cur.mem_arg.offset

\* C6: I32Store with val on top, base below, a memory and
\* (base as u32) + offset + 4 <= memory length pops the two values, writes the
\* little-endian bytes of val at base + offset, changes no other byte, and
\* does not trap.
C6_StoreInBounds ==
    [][(StoreStep /\ memory.some /\ StoreAddr + 4 <= memory.data.len) =>
           /\ status' = "running"
           /\ operand_stack' = SubSeq(operand_stack, 1, Len(operand_stack) - 2)
           /\ memory'.some
           /\ memory'.data.len = memory.data.len
           /\ \A a \in (DOMAIN memory.data.nz) \cup (DOMAIN memory'.data.nz)
                        \cup (StoreAddr..(StoreAddr + 3)) :
                 ByteAt(memory'.data, a) =
                     IF a \in StoreAddr..(StoreAddr + 3)
                     THEN ToLeBytes(StoreVal)[a - StoreAddr + 1]
                     ELSE ByteAt(memory.data, a)]_vars

\* C7: I32Store whose (base as u32) + offset + 4 exceeds the memory length
\* returns InvalidMemoryArea and leaves the memory unchanged; without a memory
\* it returns NoMemory.
C7_StoreOutOfBounds ==
    [][StoreStep =>
           /\ (memory.some /\ StoreAddr + 4 > memory.data.len) =>
                  (status' = "trapped" /\ error'.kind = "InvalidMemoryArea" /\ memory' = memory)
           /\ (~memory.some) =>
                  (status' = "trapped" /\ error'.kind = "NoMemory")]_vars

\* A division or remainder is about to run with two I32 values on the stack
DivStep ==
    /\ AtInstruction
    /\ Cur.op \in DivOps
    /\ Len(operand_stack) >= 2
    /\ operand_stack[Len(operand_stack)].tag = "I32"
    /\ operand_stack[Len(operand_stack) - 1].tag = "I32"

\* The operand pushed last
Divisor == operand_stack[Len(operand_stack)].val

\* The operand pushed first
Dividend == operand_stack[Len(operand_stack) - 1].val

\* C8: I32DivS, I32DivU, I32RemS and I32RemU trap when the divisor (pushed
\* last) is zero, and I32DivS traps for the dividend -2^31 and the divisor -1.
C8_DivisionTraps ==
    [][DivStep =>
           /\ Divisor = 0 => status' = "trapped"
           /\ (Cur.op = "I32DivS" /\ Dividend = I32_MIN /\ Divisor = -1) =>
                  status' = "trapped"]_vars

\* C9: the length of a Memory's data is a multiple of the page size and lies
\* between page_limit.start and page_limit.end pages.
C9_MemoryBounds ==
    memory.some =>
        /\ memory.data.len % MEMORY_PAGE_SIZE = 0
        /\ memory.page_limit.start * MEMORY_PAGE_SIZE <= memory.data.len
        /\ memory.data.len <= memory.page_limit.end * MEMORY_PAGE_SIZE

\* A memory that was grown past its initial size and holds stored bytes
C9_Witness ==
    /\ memory.some
    /\ status = "idle"
    /\ PageSize(memory) > memory.page_limit.start
    /\ \E a \in DOMAIN memory.data.nz : a >= MEMORY_PAGE_SIZE

\* C10: over Memory::grow calls that complete, the length of the data never
\* decreases.
C10_GrowMonotonic ==
    [][(memory.some /\ memory'.some) => memory'.data.len >= memory.data.len]_vars

\* C11: a grow request for more pages than page_limit.end, and the initial grow
\* of a blueprint whose minimum exceeds its maximum, returns an error to the
\* embedder and leaves the memory as it was; the process does not abort.
C11_GrowPastMaxTraps ==
    [][/\ (status = "idle" /\ call'.op = "grow"
              /\ call'.new_page_size > memory.page_limit.end) =>
              (status' = "trapped" /\ memory' = memory)
       /\ (status = "parsed" /\ call'.op = "from"
              /\ module.memory_blueprint.page_limit.start
                     > module.memory_blueprint.page_limit.end) =>
              status' = "trapped"]_vars

\* The description of the byte source being decoded, when it is one of Sources
IsSource == \E e \in Encoded : e[2] = bytecode

Source == (CHOOSE e \in Encoded : e[2] = bytecode)[1]

\* The byte at address x after the segments were applied in order to zeroes
RECURSIVE SegmentsAt(_, _)
SegmentsAt(segments, x) ==
    IF segments = <<>> THEN 0
    ELSE LET last == segments[Len(segments)]
         IN  IF x >= last.addr /\ x < last.addr + Len(last.data)
             THEN last.data[x - last.addr + 1]
             ELSE SegmentsAt(SubSeq(segments, 1, Len(segments) - 1), x)

\* C12: after decoding and instantiating a module with a memory and a Data
\* section of ActiveMemory0 segments, the memory has min pages, holds the bytes
\* of each segment at its offset (segments applied in section order) and is
\* zero everywhere else.
C12_DataSegmentsInMemory ==
    (status = "idle" /\ IsSource /\ Source.skipped = NoSection
         /\ Source.limits # <<>> /\ Source.segments # <<>>) =>
        /\ memory.some
        /\ memory.data.len = MEMORY_PAGE_SIZE * Source.limits[1]
        /\ \A x \in 0..(memory.data.len - 1) :
               ByteAt(memory.data, x) = SegmentsAt(Source.segments, x)

\* The next instruction calls the host function fd_write with its four I32
\* arguments on the operand stack
FdWriteStep ==
    /\ AtInstruction
    /\ Cur.op = "Call"
    /\ Cur.function_index < Len(functions)
    /\ functions[Cur.function_index + 1].kind = "RustFunction"
    /\ Len(operand_stack) >= 4
    /\ \A k \in 0..3 : operand_stack[Len(operand_stack) - k].tag = "I32"

ArgResultPtr == AsU32(operand_stack[Len(operand_stack)].val)

ArgIovecNum == AsU32(operand_stack[Len(operand_stack) - 1].val)

ArgIovecPtr == AsU32(operand_stack[Len(operand_stack) - 2].val)

ArgFd == AsU32(operand_stack[Len(operand_stack) - 3].val)

\* The i-th buffer of the iovec array, i from 0: its address is the u32 at
\* iovec_array_ptr + 8 * i and its length the u32 at iovec_array_ptr + 8 * i + 4
IovecAddr(i) == MemReadU32(memory, ArgIovecPtr + 8 * i)

IovecLen(i) == MemReadU32(memory, ArgIovecPtr + 8 * i + 4)

IovecsInBounds ==
    /\ ArgIovecPtr + 8 * ArgIovecNum <= memory.data.len
    /\ \A i \in 0..(ArgIovecNum - 1) : IovecAddr(i) + IovecLen(i) <= memory.data.len

\* The bytes of buffers i .. iovec_array_len - 1, in order
RECURSIVE IovecBytes(_)
IovecBytes(i) ==
    IF i >= ArgIovecNum THEN <<>>
    ELSE ReadBytes(memory.data, IovecAddr(i), IovecLen(i)) \o IovecBytes(i + 1)

\* C13: when every buffer named by the iovec array (entry i at
\* iovec_array_ptr + 8 * i) lies in memory and the host write succeeds,
\* fd_write does not abort and writes exactly the bytes of these buffers, in
\* order, whatever the lengths of the earlier buffers.
C13_IovecStride ==
    [][(FdWriteStep /\ memory.some /\ ArgIovecNum >= 1 /\ IovecsInBounds
            /\ ArgResultPtr + 4 <= memory.data.len /\ call'.op = "fd_write" /\ call'.io.ok) =>
           (status' # "aborted" /\ stdout' = stdout \o IovecBytes(0))]_vars

\* fd_write ran to its Ok(()) with a successful host write
FdWriteSucceeds ==
    /\ FdWriteStep
    /\ memory.some
    /\ call'.op = "fd_write"
    /\ call'.io.ok
    /\ status' \in {"running", "ok"}

\* The number of bytes the step wrote to the host stream
BytesWritten == Len(stdout') - Len(stdout)

\* C14: a successful fd_write takes result_ptr from the top of the stack,
\* iovec_array_len below it, iovec_array_ptr below that and fd fourth; it
\* replaces these four values by the single value I32(0), stores the number of
\* bytes written as a little-endian u32 at memory[result_ptr .. result_ptr+4]
\* and changes no other byte and not the length of the memory.
C14_FdWriteFrame ==
    [][FdWriteSucceeds =>
          /\ operand_stack' =
                 Append(SubSeq(operand_stack, 1, Len(operand_stack) - 4), I32(0))
          /\ Len(operand_stack') = Len(operand_stack) - 3
          /\ memory'.some /\ memory'.page_limit = memory.page_limit
          /\ memory'.data.len = memory.data.len
          /\ ArgResultPtr + 4 <= memory.data.len
          /\ \A k \in 0..3 :
                 ByteAt(memory'.data, ArgResultPtr + k)
                     = (BytesWritten \div Pow2(8 * k)) % 256
          /\ \A a \in (DOMAIN memory.data.nz) \cup (DOMAIN memory'.data.nz) :
                 a \notin ArgResultPtr..(ArgResultPtr + 3) =>
                     ByteAt(memory'.data, a) = ByteAt(memory.data, a)
          /\ ArgIovecNum = 0 => stdout' = stdout
          /\ ArgIovecNum = 1 =>
                 stdout' = stdout \o ReadBytes(memory.data, IovecAddr(0), IovecLen(0))]_vars

\* A successful fd_write has just returned: three bytes were written, their
\* count is stored at result_ptr = 64 and I32(0) is the only value on the stack
C14_Witness ==
    /\ call.op = "fd_write"
    /\ call.io.ok
    /\ status = "running"
    /\ stdout = <<72, 105, 10>>
    /\ operand_stack = <<I32(0)>>
    /\ memory.some
    /\ ReadBytes(memory.data, 64, 4) = <<3, 0, 0, 0>>

\* C15: fd_write writes to standard output only for fd 1; for fd 2 (standard
\* error) and for any other fd a step whose iovecs hold bytes leaves standard
\* output as it was, and for an fd other than 1 and 2 the call traps or pushes
\* a nonzero errno.
C15_FdSelectsStream ==
    [][(FdWriteStep /\ memory.some /\ call'.op = "fd_write" /\ status' # "aborted") =>
          /\ ArgFd # 1 => stdout' = stdout
          /\ ArgFd \notin {1, 2} =>
                 \/ status' = "trapped"
                 \/ /\ operand_stack' # <<>>
                    /\ operand_stack'[Len(operand_stack')].tag = "I32"
                    /\ operand_stack'[Len(operand_stack')].val # 0]_vars

\* The host functions an instance can bind an import to
HostRegistry == {RustFunction("wasi_snapshot_preview1", "fd_write").name}

\* The positions of the host functions in a function table
HostEntries(table) == {k \in 1..Len(table) : table[k].kind = "RustFunction"}

\* C16: Instance::new binds every function import to the host function
\* registered under its (module, field) and adds no other host function, so a
\* module without imports has none in its table; when some import is not
\* registered, Instance::new fails with UnresolvedImport and there is no instance.
C16_ImportResolution ==
    [][(status = "parsed" /\ status' # "parsed") =>
          IF \A k \in 1..NumImports : module.functions.imports[k].name \in HostRegistry
          THEN status' = "idle" =>
                   /\ Cardinality(HostEntries(functions')) = NumImports
                   /\ \A k \in 1..NumImports :
                          /\ k \in HostEntries(functions')
                          /\ functions'[k].name = module.functions.imports[k].name
          ELSE /\ status' = "trapped"
               /\ error'.kind = "UnresolvedImport"
               /\ functions' = <<>>]_vars

\* The tag of the Value a T is stored as
TagOf(T) == IF T \in {"i32", "u32"} THEN "I32" ELSE "I64"

\* The bits of an integer cell read as a T
ReadAs(T, v) ==
    CASE T \in {"i32", "i64"} -> v
      [] T = "u32" -> IF v >= 0 THEN v ELSE v + Pow2(I32_BITS)
      [] T \in {"u64", "usize"} -> IF v >= 0 THEN v ELSE v + Pow2(I64_BITS)

\* C17: pop::<T>() on an empty stack returns PopOnEmptyOperandStack and the
\* stack stays empty; on a top value whose tag is not the tag of T it returns
\* StackTypeError with `got` the value that was on top; on a top value with
\* the tag of T it returns that value as a T and the stack is the old stack
\* without its top.
C17_PopOutcomes ==
    [][call'.op = "pop" =>
          IF operand_stack = <<>>
          THEN /\ call'.result = Err(ErrPopOnEmptyOperandStack)
               /\ operand_stack' = <<>>
          ELSE IF operand_stack[Len(operand_stack)].tag # TagOf(call'.T)
          THEN /\ ~call'.result.ok
               /\ call'.result.err.kind = "StackTypeError"
               /\ call'.result.err.got = operand_stack[Len(operand_stack)]
               /\ call'.result.err.expected = call'.T
          ELSE /\ call'.result.ok
               /\ call'.result.val = ReadAs(call'.T, operand_stack[Len(operand_stack)].val)
               /\ Len(operand_stack') = Len(operand_stack) - 1
               /\ operand_stack' = SubSeq(operand_stack, 1, Len(operand_stack) - 1)]_vars

\* pop::<i64>() has just failed on an I32 that was the top of a two-value
\* stack; an F32 is left
C17_Witness ==
    /\ call.op = "pop"
    /\ call.T = "i64"
    /\ ~call.result.ok
    /\ call.result.err = ErrStackTypeError("i64", I32(5))
    /\ operand_stack = <<[tag |-> "F32", val |-> 0]>>

\* A pop::<Unsigned>() directly after a push::<Pushed>(value)
PopAfterPush(Pushed, Unsigned) ==
    /\ call.op = "push"
    /\ call.T = Pushed
    /\ call'.op = "pop"
    /\ call'.T = Unsigned

\* C18: push(x) of a u32 x followed by pop::<u32>() returns x, and push(v) of an
\* i32 v followed by pop::<u32>() succeeds and returns v mod 2^32 (2^I32_BITS
\* in the model); likewise for u64 and i64 with pop::<u64>() and 2^64
\* (2^I64_BITS).
C18_BitPreservingPops ==
    [][/\ PopAfterPush("u32", "u32") => call'.result = Ok(call.value)
       /\ PopAfterPush("i32", "u32") =>
              call'.result = Ok(call.value % Pow2(I32_BITS))
       /\ PopAfterPush("u64", "u64") => call'.result = Ok(call.value)
       /\ PopAfterPush("i64", "u64") =>
              call'.result = Ok(call.value % Pow2(I64_BITS))]_vars

\* pop::<u32>() has just returned the largest u32 from a cell with the sign bit
\* set, and pop::<u64>() the largest u64
C18_Witness ==
    /\ call.op = "pop"
    /\ operand_stack = <<>>
    /\ \/ call.T = "u32" /\ call.result = Ok(Pow2(I32_BITS) - 1)
       \/ call.T = "u64" /\ call.result = Ok(Pow2(I64_BITS) - 1)

\* The functions of the module the Parser returned
ParsedFunctions == call.result.val.functions

\* The names of the instructions of a body
OpNames(body) == [k \in 1..Len(body) |-> body[k].op]

\* C19: a successful parse keeps every instruction of a function body: the
\* body decoded for the function of the Code section has, in order, one
\* instruction for each instruction of the source, with the same opcode.
C19_NoOpcodeDropped ==
    (status = "parsed" /\ call.op = "parse_module" /\ IsSource
         /\ Source.skipped = NoSection) =>
        /\ ParsedFunctions # <<>>
        /\ OpNames(ParsedFunctions[Len(ParsedFunctions)].body)
               = [k \in 1..Len(Source.body) |-> Source.body[k][1]]

\* The source being decoded without its Table, Global, Start, Element or
\* DataCount section
WithoutSkipped == EncodeModule([Source EXCEPT !.skipped = NoSection])

\* C20: a Table, Global, Start, Element or DataCount section is skipped as a
\* whole and decoding goes on: when the source without that section decodes
\* to a module, the source with it decodes to the same module, every section
\* after the skipped one included, and the whole source is consumed.
C20_SkippedSectionsContinue ==
    (call.op = "parse_module" /\ IsSource /\ Source.skipped # NoSection
         /\ ParseModule(WithoutSkipped).kind = "ok") =>
        /\ call.result.kind = "ok"
        /\ call.result.val = ParseModule(WithoutSkipped).val
        /\ call.result.pos = Len(bytecode) + 1

\* C21: parsing an empty byte source fails with the decoder error
\* NotAWasmModule.
C21_EmptySourceNotAWasmModule ==
    (call.op = "parse_module" /\ bytecode = <<>>) =>
        /\ status = "parse_error"
        /\ error = ParsingError("NotAWasmModule")

\* The first four bytes of the source being decoded, and the next four
Magic == SubSeq(bytecode, 1, 4)

Version == SubSeq(bytecode, 5, 8)

\* C22: a source of at least 8 bytes whose first four bytes are not
\* 00 61 73 6D fails with NotAWasmModule, and one with the magic whose next
\* four bytes are not 01 00 00 00 fails with IllegalVersion carrying those
\* four bytes; no Module is returned, whatever bytes follow.
C22_HeaderErrors ==
    (call.op = "parse_module" /\ Len(bytecode) >= 8) =>
        /\ Magic # <<0, 97, 115, 109>> =>
               /\ call.result = ReadErr(ParsingError("NotAWasmModule"))
               /\ status = "parse_error"
               /\ error = ParsingError("NotAWasmModule")
        /\ (Magic = <<0, 97, 115, 109>> /\ Version # <<1, 0, 0, 0>>) =>
               /\ call.result = ReadErr(ErrIllegalVersion(Version))
               /\ status = "parse_error"
               /\ error = ErrIllegalVersion(Version)

\* The version 02 00 00 00 followed by the sections of a module was rejected
C22_Witness ==
    /\ call.op = "parse_module"
    /\ Len(bytecode) > 16
    /\ Magic = <<0, 97, 115, 109>>
    /\ Version = <<2, 0, 0, 0>>
    /\ call.result = ReadErr(ErrIllegalVersion(<<2, 0, 0, 0>>))

\* The tags of the values of a stack, bottom first
Tags(stack) == [k \in 1..Len(stack) |-> stack[k].tag]

\* The signature of the function start() runs
StartSignature == functions[StartIndex(functions) + 1].func.signature

\* C23: when start() finishes without a trap, the values the run left on the
\* operand stack match the result types of the _start function's signature in
\* number and type; a _start with no results leaves the stack as it was.  The
\* first start() of an instance begins with the empty stack.
C23_StackMatchesResults ==
    (status = "ok" /\ starts = 1) => Tags(operand_stack) = StartSignature.results

\* A call of start() on an instance that start() was called on before
LaterStart == starts >= 1 /\ starts' = starts + 1 /\ StartIndices(functions) # {}

\* The function the first start() ran: the first WasmFunction of the table
\* Instance::new built that is exported as "_start"
FirstStartFunction == InstanceFunctions(module)[StartIndex(InstanceFunctions(module)) + 1]

\* C24: start() may be called again on one instance: the second and every
\* later call begins with the operand stack and the memory exactly as the
\* previous call left them, and locates and runs the same _start function.
C24_RepeatedStart ==
    [][LaterStart =>
           /\ operand_stack' = operand_stack
           /\ memory' = memory
           /\ status' = "running"
           /\ call_stack' = Append(call_stack, StartIndex(InstanceFunctions(module)))
           /\ frames' = <<ExecFunctionFrame(StartIndex(InstanceFunctions(module))),
                          InstructionsFrame(FirstStartFunction.func.body)>>]_vars

\* The second start() has begun on a stack and a memory the first one wrote
C24_Witness ==
    /\ starts = 2
    /\ status = "running"
    /\ Len(frames) = 2
    /\ Top.pc = 1
    /\ operand_stack # <<>>
    /\ memory.some
    /\ memory.data.nz # <<>>

\* Two parses of the same byte sequence, one directly after the other
TwoParses == call.op = "parse_module" /\ call'.op = "parse_module" /\ call'.nth = call.nth + 1

IsTypeSource == \E e \in TypeSources : e[2] = bytecode

\* The entries of its Type section
TypeSourceEntries == (CHOOSE e \in TypeSources : e[2] = bytecode)[1]

\* The name of the Type a byte stands for
TypeName(byte) == (CHOOSE t \in TypeNames : t[1] = byte)[2]

\* The signature an entry declares: params and results in byte order
DeclaredSignature(entry) ==
    FunctionSignature([k \in 1..Len(entry.params) |-> TypeName(entry.params[k])],
                      [k \in 1..Len(entry.results) |-> TypeName(entry.results[k])])

\* C26: a Type section with k entries yields exactly k signatures in
\* declaration order, each with its params and results in byte order (seen
\* through the functions of a Function section that has one function of each
\* type), and an entry whose leading byte is not 0x60 makes the parse fail
\* with a decoder error rather than abort the process.
C26_TypeSection ==
    (call.op = "parse_module" /\ IsTypeSource) =>
        IF \A k \in 1..Len(TypeSourceEntries) : TypeSourceEntries[k].lead = 96
        THEN /\ call.result.kind = "ok"
             /\ [k \in 1..Len(call.result.val.functions) |->
                     call.result.val.functions[k].signature]
                    = [k \in 1..Len(TypeSourceEntries) |->
                           DeclaredSignature(TypeSourceEntries[k])]
        ELSE call.result.kind = "err"

\* The instruction `op` is about to run on a stack that ends with the i32
\* values a (pushed first) and b (pushed last)
OperandsReady(ops) ==
    /\ AtInstruction
    /\ Cur.op \in ops
    /\ Len(operand_stack) >= 2
    /\ operand_stack[Len(operand_stack) - 1].tag = "I32"
    /\ operand_stack[Len(operand_stack)].tag = "I32"

OperandA == operand_stack[Len(operand_stack) - 1].val

OperandB == operand_stack[Len(operand_stack)].val

\* The stack below the two operands
BelowOperands == SubSeq(operand_stack, 1, Len(operand_stack) - 2)

\* x mod 2^32 (2^I32_BITS in the model) read as a signed i32
Signed(x) ==
    LET m == x % Pow2(I32_BITS)
    IN  IF m >= Pow2(I32_BITS - 1) THEN m - Pow2(I32_BITS) ELSE m

\* C27: I32Add and I32Mul each pop two I32 values a and b and push
\* (a+b) mod 2^32, respectively (a*b) mod 2^32, as a signed i32, overflowing
\* operands included, and leave the rest of the stack unchanged; the run goes
\* on with the next instruction.
C27_AddMulWrap ==
    [][OperandsReady({"I32Add", "I32Mul"}) =>
           /\ operand_stack' =
                  Append(BelowOperands,
                         I32(Signed(IF Cur.op = "I32Add" THEN OperandA + OperandB
                                    ELSE OperandA * OperandB)))
           /\ status' = "running"
           /\ frames' = Advance(frames)
           /\ memory' = memory]_vars

\* I32Add has just run on the largest i32 and 7 above an untouched value, and
\* pushed the wrapped sum
C27_Witness ==
    /\ status = "running"
    /\ frames # <<>>
    /\ Top.kind = "execute_instructions"
    /\ Top.pc > 3
    /\ Top.instructions[Top.pc - 1].op = "I32Add"
    /\ Top.instructions[Top.pc - 2] = I32Const(7)
    /\ Top.instructions[Top.pc - 3] = I32Const(I32_MAX)
    /\ operand_stack = <<I32(9), I32(I32_MIN + 6)>>

\* C28: I32Sub, executed with a pushed first and b pushed last, pops both
\* values and pushes the wrapping difference (a - b) mod 2^32 as a signed
\* i32; the stack is one shorter afterwards.
C28_SubWraps ==
    [][OperandsReady({"I32Sub"}) =>
           /\ operand_stack' = Append(BelowOperands, I32(Signed(OperandA - OperandB)))
           /\ Len(operand_stack') = Len(operand_stack) - 1]_vars

RelationalOps ==
    {"I32LtS", "I32LtU", "I32GtS", "I32GtU", "I32LeS", "I32LeU", "I32GeS", "I32GeU"}

\* The value of an i32 read as unsigned
Unsigned(x) == x % Pow2(I32_BITS)

\* The relation an instruction names, between a (pushed first) and b (pushed
\* last), by the interpretation its suffix names
Holds(op, a, b) ==
    LET x == IF op \in {"I32LtU", "I32GtU", "I32LeU", "I32GeU"} THEN Unsigned(a) ELSE a
        y == IF op \in {"I32LtU", "I32GtU", "I32LeU", "I32GeU"} THEN Unsigned(b) ELSE b
    IN  CASE op \in {"I32LtS", "I32LtU"} -> x < y
          [] op \in {"I32GtS", "I32GtU"} -> x > y
          [] op \in {"I32LeS", "I32LeU"} -> x <= y
          [] op \in {"I32GeS", "I32GeU"} -> x >= y

\* C29: each i32 relational instruction pops two I32 values and pushes I32(1)
\* if its relation holds and I32(0) otherwise; I32LtS, I32GtS, I32LeS and
\* I32GeS compare as signed, I32LtU, I32GtU, I32LeU and I32GeU as unsigned
\* 32-bit integers.
C29_Relational ==
    [][OperandsReady(RelationalOps) =>
           operand_stack' =
               Append(BelowOperands,
                      I32(IF Holds(Cur.op, OperandA, OperandB) THEN 1 ELSE 0))]_vars

ShiftRotateOps == {"I32Shl", "I32ShrS", "I32ShrU", "I32Rotl", "I32Rotr"}

\* The stack with the shift count (the operand pushed last) replaced by the
\* count modulo the width
CountReduced == Append(Append(BelowOperands, I32(OperandA)), I32(OperandB % I32_BITS))

\* What the interpreter does with instruction `op` on `stack`: the outcome of
\* its arm, or of the catch-all arm when it has none
ArmOutcome(op, stack) ==
    IF op \in ShiftOps THEN I32ShiftArm(op, stack, memory, overflow_checks)
    ELSE Done(stack, memory)

\* C30: I32Shl, I32ShrS, I32ShrU, I32Rotl and I32Rotr use only the low-order
\* 5 bits of the shift count (the low-order bits below the width, in the
\* model): for every value v and every count c the instruction pushes the
\* same result as with the count c mod 32, and no count causes a trap or a
\* process abort.
C30_ShiftCountMasked ==
    [][OperandsReady(ShiftRotateOps) =>
           /\ status' = "running"
           /\ operand_stack' = ArmOutcome(Cur.op, CountReduced).operand_stack]_vars

\* The operand stack without its top value
BelowTop == SubSeq(operand_stack, 1, Len(operand_stack) - 1)

\* C31: If pops exactly one I32 condition and then executes exactly one of the
\* two bodies, the then-body when the condition is nonzero and the else-body
\* (possibly empty) when it is zero, and goes on after the If when the body
\* is done; a non-I32 top value or an empty stack traps before either body
\* runs.
C31_If ==
    [][(AtInstruction /\ Cur.op = "If") =>
           IF operand_stack = <<>>
           THEN /\ status' = "trapped"
                /\ error' = ErrPopOnEmptyOperandStack
                /\ frames' = <<>>
                /\ operand_stack' = <<>>
           ELSE IF operand_stack[Len(operand_stack)].tag # "I32"
           THEN /\ status' = "trapped"
                /\ error'.kind = "StackTypeError"
                /\ frames' = <<>>
           ELSE /\ status' = "running"
                /\ operand_stack' = BelowTop
                /\ Len(frames') = Len(frames) + 1
                /\ SubSeq(frames', 1, Len(frames)) = Advance(frames)
                /\ frames'[Len(frames')] =
                       InstructionsFrame(IF operand_stack[Len(operand_stack)].val # 0
                                         THEN Cur.if_instructions
                                         ELSE Cur.else_instructions)]_vars

\* The else-body of an If has just been entered on the condition 0, above a
\* value an earlier run left
C31_Witness ==
    /\ status = "running"
    /\ Len(frames) = 3
    /\ Top = InstructionsFrame(<<I32Const(20)>>)
    /\ frames[2].pc = 3
    /\ frames[2].instructions[2].op = "If"
    /\ frames[2].instructions[1] = I32Const(0)
    /\ operand_stack # <<>>

IsExecFunctionFrame(frame) == frame.kind = "exec_function"

\* The indices of the functions that are executing, outermost first
ExecutingIndices ==
    LET active == SelectSeq(frames, IsExecFunctionFrame)
    IN  [k \in 1..Len(active) |-> active[k].function_index]

\* C32: during a run the call stack holds exactly the indices of the
\* functions currently executing, outermost first (pushed before the callee's
\* first instruction, popped when it returns), and after a start() that
\* succeeds the call stack is empty.
C32_CallStackIsExecuting ==
    /\ status = "running" => call_stack = ExecutingIndices
    /\ status = "ok" => call_stack = <<>>

\* A Call whose index is not below the length of the function table
CallOutOfBounds ==
    /\ AtInstruction
    /\ Cur.op = "Call"
    /\ Cur.function_index >= Len(functions)

\* C33: Call{function_index: k} with k greater than or equal to the length of
\* the function table traps with FunctionIndexOutOfBounds{index: k, len: the
\* table's length}, and the failed call pushes nothing on the call stack or
\* the operand stack.
C33_CallOutOfBounds ==
    [][CallOutOfBounds =>
           /\ status' = "trapped"
           /\ error' = [kind |-> "FunctionIndexOutOfBounds",
                        index |-> Cur.function_index, len |-> Len(functions)]
           /\ call_stack' = call_stack
           /\ operand_stack' = operand_stack
           /\ memory' = memory]_vars

\* Call{5} has trapped on a table of 4 functions, above the value the caller
\* pushed before it
C33_Witness ==
    /\ status = "trapped"
    /\ error = [kind |-> "FunctionIndexOutOfBounds", index |-> 5, len |-> 4]
    /\ operand_stack = <<I32(1)>>
    /\ call_stack = <<1>>

\* The body decoded for the function of the Code section
DecodedBody == ParsedFunctions[Len(ParsedFunctions)].body

\* The source's function body has a Block or a Loop
HasBlock == \E k \in 1..Len(Source.body) : Source.body[k][1] \in {"Block", "Loop"}

\* C34: decoding a Block (or Loop) reads one block-type byte and the nested
\* instructions up to and including the block's own End and nothing more: a
\* function body with a nested block is decoded with the block as one
\* instruction, holding its nested instructions, followed by the remaining
\* instructions of the body.
C34_BlockDecoding ==
    (call.op = "parse_module" /\ IsSource /\ Source.skipped = NoSection /\ HasBlock) =>
        /\ call.result.kind = "ok"
        /\ ParsedFunctions # <<>>
        /\ Len(DecodedBody) = Len(Source.body)
        /\ \A k \in 1..Len(Source.body) :
               /\ DecodedBody[k].op = Source.body[k][1]
               /\ Source.body[k][1] \in {"Block", "Loop"} =>
                      OpNames(DecodedBody[k].instructions) = Source.body[k][3]

\* The integer the bytes are the signed LEB128 encoding of: seven bits a byte,
\* lowest first, with bit 6 of the last byte as the sign
RECURSIVE SignedLeb(_)
SignedLeb(bytes) ==
    IF Len(bytes) = 1
    THEN IF bytes[1] >= 64 THEN bytes[1] - 128 ELSE bytes[1]
    ELSE (bytes[1] % 128) + 128 * SignedLeb(Tail(bytes))

\* C35: the I32Const immediate is decoded as a signed LEB128 integer: the
\* single byte 0x7F decodes to I32Const(-1) and 0x41 to I32Const(-63), and
\* every i32 value comes back from its signed LEB128 encoding.
C35_I32ConstSigned ==
    (call.op = "parse_module" /\ IsSource /\ Source.skipped = NoSection
         /\ call.result.kind = "ok" /\ ParsedFunctions # <<>>
         /\ Len(DecodedBody) = Len(Source.body)) =>
        \A k \in 1..Len(Source.body) :
            Source.body[k][1] = "I32Const" =>
                DecodedBody[k] = I32Const(Signed(SignedLeb(Tail(Source.body[k][2]))))

\* C36: opcode 0x42 decodes to an I64Const instruction carrying the signed
\* LEB128 i64 immediate: the full value, not truncated to 32 bits, and not an
\* I32Const.
C36_I64Const ==
    (call.op = "parse_module" /\ IsSource /\ Source.skipped = NoSection
         /\ call.result.kind = "ok" /\ ParsedFunctions # <<>>
         /\ Len(DecodedBody) = Len(Source.body)) =>
        \A k \in 1..Len(Source.body) :
            Source.body[k][1] = "I64Const" =>
                DecodedBody[k] = [op |-> "I64Const",
                                  val |-> SignedLeb(Tail(Source.body[k][2]))]

\* The source being decoded is a module with a Code section of several entries
IsCodeSource == \E e \in CodeSources : e[2] = bytecode

CodeSource == (CHOOSE e \in CodeSources : e[2] = bytecode)[1]

\* count copies of each group's Type, in group order
RECURSIVE FlattenGroups(_)
FlattenGroups(groups) ==
    IF groups = <<>> THEN <<>>
    ELSE [k \in 1..groups[1][1] |-> TypeName(groups[1][2])] \o FlattenGroups(Tail(groups))

\* C37: the i-th entry of the Code section (from 0) fills the body and the
\* locals of the function at index num_imports + i and of no other function;
\* its locals are count copies of each group's Type in group order; import
\* entries keep an empty body.
C37_CodeSection ==
    (call.op = "parse_module" /\ IsCodeSource) =>
        /\ call.result.kind = "ok"
        /\ Len(ParsedFunctions) = CodeSource.imports + Len(CodeSource.entries)
        /\ \A j \in 1..CodeSource.imports :
               /\ ParsedFunctions[j].body = <<>>
               /\ ParsedFunctions[j].locals = <<>>
        /\ \A i \in 1..Len(CodeSource.entries) :
               /\ ParsedFunctions[CodeSource.imports + i].locals
                      = FlattenGroups(CodeSource.entries[i].groups)
               /\ OpNames(ParsedFunctions[CodeSource.imports + i].body)
                      = [k \in 1..Len(CodeSource.entries[i].body) |->
                             CodeSource.entries[i].body[k][1]]

\* A module with an import and two entries was decoded: the import has no
\* body, the second function has the locals of two groups
C37_Witness ==
    /\ call.op = "parse_module"
    /\ IsCodeSource
    /\ call.result.kind = "ok"
    /\ Len(ParsedFunctions) = 3
    /\ ParsedFunctions[1].body = <<>>
    /\ ParsedFunctions[2].body = <<Plain("Nop")>>
    /\ ParsedFunctions[3].body = <<Plain("Return"), Plain("Nop")>>
    /\ ParsedFunctions[3].locals = <<"I32", "I64", "I64">>

\* The source's function body is made of I32Const and Drop only
ConstsAndDrops ==
    \A k \in 1..Len(Source.body) : Source.body[k][1] \in {"I32Const", "Drop"}

\* The depth of the stack after the instructions from `k` on, run from depth
\* `depth` with each I32Const pushing one value and each Drop removing one;
\* -1 when a Drop meets the empty stack
RECURSIVE DepthAfter(_, _, _)
DepthAfter(body, k, depth) ==
    IF k > Len(body) THEN depth
    ELSE IF body[k][1] = "I32Const" THEN DepthAfter(body, k + 1, depth + 1)
    ELSE IF depth = 0 THEN -1
    ELSE DepthAfter(body, k + 1, depth - 1)

\* The first start() of the module decoded from the source has ended
FirstRunOver ==
    IsSource /\ Source.skipped = NoSection /\ starts = 1 /\ status \in {"ok", "trapped"}

\* C38: a function body that contains the opcode byte 0x1A (Drop), once
\* decoded and executed, removes exactly one value from the operand stack at
\* that point, and a Drop on the empty stack traps with
\* PopOnEmptyOperandStack.
C38_DropDecodedAndExecuted ==
    (FirstRunOver /\ ConstsAndDrops) =>
        IF DepthAfter(Source.body, 1, 0) = -1
        THEN status = "trapped" /\ error = ErrPopOnEmptyOperandStack
        ELSE status = "ok" /\ Len(operand_stack) = DepthAfter(Source.body, 1, 0)

\* C39: an instruction the executor has no arm for is a no-op: the step raises
\* no trap, leaves operand stack, memory and call stack as they were, and the
\* same body goes on with its next instruction.
C39_UnimplementedIsNoOp ==
    [][(AtInstruction /\ Cur.op \notin ArmOps) =>
           /\ status' = "running"
           /\ error' = error
           /\ operand_stack' = operand_stack
           /\ memory' = memory
           /\ call_stack' = call_stack
           /\ stdout' = stdout
           /\ frames' = Advance(frames)]_vars

\* The body went past one of the instructions without an arm and stands at
\* the instruction after it, with a value on the operand stack.
C39_Witness ==
    /\ AtInstruction
    /\ Top.pc > 1
    /\ Top.instructions[Top.pc - 1].op \in {"LocalGet", "GlobalSet", "Br", "I64Add", "I32Load", "F32Const"}
    /\ operand_stack # <<>>

RECURSIVE Callees(_)
\* The function indices a list of instructions calls, nested bodies included
Callees(instructions) ==
    IF instructions = <<>>
    THEN {}
    ELSE LET instruction == Head(instructions)
         IN  (CASE instruction.op = "Call" -> {instruction.function_index}
                [] instruction.op \in {"Block", "Loop"} -> Callees(instruction.instructions)
                [] instruction.op = "If" ->
                     Callees(instruction.if_instructions) \cup Callees(instruction.else_instructions)
                [] OTHER -> {})
             \cup Callees(Tail(instructions))

CalleesOf(function_index) ==
    IF function_index < Len(functions) /\ functions[function_index + 1].kind = "WasmFunction"
    THEN Callees(functions[function_index + 1].func.body)
    ELSE {}

RECURSIVE ReachableFrom(_)
ReachableFrom(indices) ==
    LET more == indices \cup UNION {CalleesOf(k) : k \in indices}
    IN  IF more = indices THEN indices ELSE ReachableFrom(more)

\* No function reachable from _start lies on a chain of Calls back to itself
NoRecursiveChain ==
    StartIndices(functions) # {} =>
        \A k \in ReachableFrom({StartIndex(functions)}) : k \notin ReachableFrom(CalleesOf(k))

Terminated == status \in {"ok", "trapped", "aborted"}

\* Every list of instructions that stays active keeps its place or moves
\* forward, and the step that executes an instruction moves its list past it.
PcAdvances ==
    \A i \in 1..Len(frames) :
        (status' = "running" /\ i <= Len(frames')) =>
            /\ frames'[i].kind = frames[i].kind
            /\ frames[i].kind = "execute_instructions" =>
                   /\ frames'[i].instructions = frames[i].instructions
                   /\ frames'[i].pc >= frames[i].pc
                   /\ (i = Len(frames) /\ AtInstruction) => frames'[i].pc > frames[i].pc

\* C40: without a recursive chain of Calls reachable from _start, start()
\* terminates: a body entered by Block or Loop is run once from its first
\* instruction, no instruction of an active body is executed a second time,
\* and every run that has begun ends in Ok, a trap or an abort.
C40_StartTerminates ==
    /\ [][NoRecursiveChain =>
              /\ PcAdvances
              /\ (AtInstruction /\ Cur.op \in {"Block", "Loop"}) =>
                     frames' = Advance(frames) \o <<InstructionsFrame(Cur.instructions)>>]_vars
    /\ (status = "running" /\ NoRecursiveChain) ~> Terminated

\* A start() whose _start body holds a Loop has returned Ok.
C40_Witness ==
    /\ status = "ok"
    /\ starts >= 1
    /\ NoRecursiveChain
    /\ StartIndices(functions) # {}
    /\ LET body == functions[StartIndex(functions) + 1].func.body
       IN  \E i \in 1..Len(body) : body[i].op = "Loop"

====
